---------------------------- MODULE Spec2Model ----------------------------
(***************************************************************************)
(* Model of the RobustMQ placement-center expiration sweeper               *)
(* (controller/mqtt/message_expire.rs) running against the mqtt column     *)
(* family of the metadata store, and of the placement-center MQTT cache    *)
(* (mqtt/cache.rs).                                                        *)
(*                                                                         *)
(* An Option<T> is a sequence of length at most one: None is <<>> and      *)
(* Some(x) is <<x>>.                                                       *)
(***************************************************************************)
EXTENDS Integers, Sequences, FiniteSets, TLC

VARIABLES
    now,                \* now_second(): the wall clock, in whole seconds
    db,                 \* cf_mqtt: key -> Option<StorageDataWrap>
    rpc,                \* retain_message_expire: position of the task
    riter,              \* retain_message_expire: the raw iterator (entries left)
    rlast,              \* history: the last record the retained sweep visited
    lpc,                \* last_will_message_expire: position of the task
    liter,              \* last_will_message_expire: the raw iterator
    llast,              \* history: the last record the last-will sweep visited
    topic_list,         \* MqttCacheManager.topic_list
    user_list,          \* MqttCacheManager.user_list
    connector_list,     \* MqttCacheManager.connector_list
    expire_last_wills,  \* MqttCacheManager.expire_last_wills
    pending,            \* add_*: the callers between the failed lookup and the outer insert
    last_op,            \* history: the last cache method called
    after_add,          \* history: last_op is a remove_K that directly followed the add_K of the same entry
    live_wills,         \* history: the entries added and not since removed or replaced
    wills_result,       \* the last value get_expire_last_wills returned
    calls,              \* the cache calls in progress, step by step, with the guards they hold
    broker,             \* the broker's TopicStorage: the adapter's keys and the calls in progress
    registry,           \* PlacementCacheManager: cluster_name -> Option<cluster_type>
    loader,             \* load_mqtt_cache: position of the call
    cluster_cache,      \* ClusterCache: the live brokers and the node records of a cluster
    leader_reply,       \* the last outcome of get_share_sub_leader
    proposals,          \* RaftMachineApply: the StorageData proposed, in proposal order
    rpc_reply           \* history: the last RPC served and its outcome

storeVars == <<db, rpc, riter, rlast, lpc, liter, llast>>
cacheVars == <<topic_list, user_list, connector_list, expire_last_wills, pending,
               last_op, after_add, live_wills, wills_result, calls, broker>>
svcVars == <<registry, loader, cluster_cache, leader_reply, proposals, rpc_reply>>
vars == <<now, db, rpc, riter, rlast, lpc, liter, llast, topic_list, user_list,
          connector_list, expire_last_wills, pending, last_op, after_add,
          live_wills, wills_result, calls, broker, registry, loader, cluster_cache,
          leader_reply, proposals, rpc_reply>>

-----------------------------------------------------------------------------
(* Bounds of the model *)

\* the clock runs from 0 to MaxTime (and, in the last-will model, once over the long gap)
MaxTime == 2
\* expiry intervals handed to the writers range over 1..MaxExpiry
MaxExpiry == 1
\* the gRPC service takes at most MaxProposals mutating requests
MaxProposals == 2

-----------------------------------------------------------------------------
(* Option *)

None == <<>>

Some(x) == <<x>>

IsSome(o) == o # <<>>

Unwrap(o) == o[1]

-----------------------------------------------------------------------------
(* The key space of cf_mqtt *)

\* the cluster the MessageExpire object was built for
SweepCluster == "c1"

Clusters == {"c1", "c2"}

\* the families, in byte order of their key segment
FamilySeq == <<"lastwill", "session", "topic", "user">>

\* the names used under a family of a cluster, in byte order
NameSeq(c, f) ==
    IF f = "topic"
    THEN (IF c = "c1" THEN <<"t1", "t2">> ELSE <<"t1">>)
    ELSE IF f = "user"
    THEN (IF c = "c1" THEN <<"u1", "u2">> ELSE <<"u1">>)
    ELSE IF f = "session"
    THEN (IF c = "c1" THEN <<"k1">> ELSE <<>>)
    ELSE (IF c = "c1" THEN <<"k1", "k2">> ELSE <<"k1">>)

Key(c, f, n) == [cluster |-> c, family |-> f, name |-> n]

FamilyKeys(c, f) == [i \in 1..Len(NameSeq(c, f)) |-> Key(c, f, NameSeq(c, f)[i])]

ClusterKeys(c) ==
    FamilyKeys(c, "lastwill") \o FamilyKeys(c, "session")
        \o FamilyKeys(c, "topic") \o FamilyKeys(c, "user")

\* every key of the column family, in the byte-lexicographic order of
\* mqtt/{cluster}/{family}/{name}
KeySeq == ClusterKeys("c1") \o ClusterKeys("c2")

Keys == {KeySeq[i] : i \in 1..Len(KeySeq)}

TopicKeys == {k \in Keys : k.family = "topic"}

LastWillKeys == {k \in Keys : k.family = "lastwill"}

UserKeys == {k \in Keys : k.family = "user"}

storage_key_mqtt_topic_cluster_prefix(c) == [cluster |-> c, family |-> "topic"]

storage_key_mqtt_last_will_prefix(c) == [cluster |-> c, family |-> "lastwill"]

\* String::starts_with(prefix) on a key
StartsWith(k, p) == k.cluster = p.cluster /\ k.family = p.family

ClusterRank(c) == IF c = "c1" THEN 1 ELSE 2

FamilyRank(f) ==
    IF f = "lastwill" THEN 1 ELSE IF f = "session" THEN 2 ELSE IF f = "topic" THEN 3 ELSE 4

\* key >= prefix in byte order: where seek(prefix) may position the iterator
AtOrAfter(k, p) ==
    \/ ClusterRank(k.cluster) > ClusterRank(p.cluster)
    \/ /\ k.cluster = p.cluster
       /\ FamilyRank(k.family) >= FamilyRank(p.family)

-----------------------------------------------------------------------------
(* Records *)

\* StorageDataWrap::new(data): the envelope, stamped with the time of the save
StorageDataWrap(data, t) == [data |-> data, create_time |-> t]

\* MQTTTopic::new(topic_id, topic_name)
MQTTTopicNew(id, name) ==
    [topic_id |-> id, topic_name |-> name,
     retain_message |-> None, retain_message_expired_at |-> None]

Expiries == 1..MaxExpiry


Messages == {"m1"}

TopicIds == {"id1"}

-----------------------------------------------------------------------------
(* The metadata store (MQTTTopicStorage, MQTTLastWillStorage) *)

\* MQTTTopicStorage::save(cluster, topic_name, content): one put of the wrapped payload
TopicStorageSave(store, c, name, payload, t) ==
    [store EXCEPT ![Key(c, "topic", name)] = Some(StorageDataWrap(payload, t))]

\* MQTTTopicStorage::list(cluster, Some(topic_name)): the envelope, if present
TopicStorageList(store, c, name) == store[Key(c, "topic", name)]

\* a broker creates the topic: save(cluster, topic_name, MQTTTopic::new(..).encode())
TopicSave(c, name, id) ==
    /\ db' = TopicStorageSave(db, c, name, MQTTTopicNew(id, name), now)
    /\ UNCHANGED <<now, rpc, riter, rlast, lpc, liter, llast>>
    /\ UNCHANGED <<cacheVars, svcVars>>

\* MQTTTopicStorage::set_topic_retain_message(cluster, topic_name, message, expired_at):
\* reads the topic, sets both retain fields, saves it again
SetTopicRetainMessage(c, name, msg, e) ==
    /\ IsSome(TopicStorageList(db, c, name))
    /\ LET topic == Unwrap(TopicStorageList(db, c, name)).data
       IN db' = TopicStorageSave(db, c, name,
                    [topic EXCEPT !.retain_message = Some(msg),
                                  !.retain_message_expired_at = Some(e)], now)
    /\ UNCHANGED <<now, rpc, riter, rlast, lpc, liter, llast>>
    /\ UNCHANGED <<cacheVars, svcVars>>

\* MQTTTopicStorage::delete(cluster, topic_name)
TopicDelete(c, name) ==
    /\ IsSome(TopicStorageList(db, c, name))
    /\ db' = [db EXCEPT ![Key(c, "topic", name)] = None]
    /\ UNCHANGED <<now, rpc, riter, rlast, lpc, liter, llast>>
    /\ UNCHANGED <<cacheVars, svcVars>>

\* any writer of the topic records of the swept cluster
TopicWriter ==
    \E k \in {x \in TopicKeys : x.cluster = SweepCluster} :
        \/ \E id \in TopicIds : TopicSave(k.cluster, k.name, id)
        \/ \E m \in Messages, e \in Expiries :
               SetTopicRetainMessage(k.cluster, k.name, m, e)
        \/ TopicDelete(k.cluster, k.name)

\* a broker of another cluster creates a topic; each such topic is created once
OtherTopicCreate ==
    \E k \in {x \in TopicKeys : x.cluster # SweepCluster}, id \in TopicIds :
        /\ ~IsSome(TopicStorageList(db, k.cluster, k.name))
        /\ TopicSave(k.cluster, k.name, id)

ClientIds == {"k1", "k2"}

\* the shapes of LastWillData.last_will_properties
LastWillPropertyValues ==
    {None} \cup {Some([message_expiry_interval |-> None])}
           \cup {Some([message_expiry_interval |-> Some(e)]) : e \in Expiries}

\* LastWillData { client_id, last_will, last_will_properties }
LastWillData(client, props) ==
    [client_id |-> client, last_will |-> None, last_will_properties |-> props]

\* MQTTLastWillStorage::save(cluster, client_id, content)
LastWillStorageSave(store, c, client, payload, t) ==
    [store EXCEPT ![Key(c, "lastwill", client)] = Some(StorageDataWrap(payload, t))]

\* MQTTLastWillStorage::get(cluster, client_id)
LastWillStorageGet(store, c, client) == store[Key(c, "lastwill", client)]

\* MQTTLastWillStorage::delete_last_will_message(cluster, client_id)
LastWillStorageDelete(store, c, client) ==
    [store EXCEPT ![Key(c, "lastwill", client)] = None]

\* the last wills that are saved again while a record is there; the others are
\* saved only where none is
ResavedLastWills == {Key(SweepCluster, "lastwill", "k1")}

\* a broker saves the last will of one of its clients
LastWillSave ==
    \E k \in LastWillKeys, props \in LastWillPropertyValues :
        /\ k \in ResavedLastWills \/ ~IsSome(LastWillStorageGet(db, k.cluster, k.name))
        /\ db' = LastWillStorageSave(db, k.cluster, k.name,
                                     LastWillData(k.name, props), now)
        /\ UNCHANGED <<now, rpc, riter, rlast, lpc, liter, llast>>
        /\ UNCHANGED <<cacheVars, svcVars>>

-----------------------------------------------------------------------------
(* The raw iterator *)

\* raw_iterator_cf + seek(prefix): the entries at or after the prefix, in key
\* order, as of the creation of the iterator
IterSeek(store, p) ==
    LET at == SelectSeq(KeySeq, LAMBDA k : AtOrAfter(k, p) /\ IsSome(store[k]))
    IN [i \in 1..Len(at) |-> [key |-> at[i], value |-> Unwrap(store[at[i]])]]

-----------------------------------------------------------------------------
(* Decoding the stored bytes *)

\* bytes that are neither an envelope nor a payload
Garbage == [garbage |-> "x"]

\* serde_json::from_slice::<StorageDataWrap>: the envelope, or an error
from_slice_StorageDataWrap(bytes) ==
    IF DOMAIN bytes = {"data", "create_time"} THEN Some(bytes) ELSE None

\* serde_json::from_slice::<MQTTTopic>: the topic, or an error
from_slice_MQTTTopic(bytes) ==
    IF "topic_name" \in DOMAIN bytes THEN Some(bytes) ELSE None

\* serde_json::from_slice::<LastWillData>: the last will, or an error
from_slice_LastWillData(bytes) ==
    IF "client_id" \in DOMAIN bytes THEN Some(bytes) ELSE None

\* lines 55-56: both from_slice calls of the retained sweep return Ok
RetainDecodes(bytes) ==
    /\ IsSome(from_slice_StorageDataWrap(bytes))
    /\ IsSome(from_slice_MQTTTopic(Unwrap(from_slice_StorageDataWrap(bytes)).data))

\* lines 110-111: both from_slice calls of the last-will sweep return Ok
LastWillDecodes(bytes) ==
    /\ IsSome(from_slice_StorageDataWrap(bytes))
    /\ IsSome(from_slice_LastWillData(Unwrap(from_slice_StorageDataWrap(bytes)).data))

-----------------------------------------------------------------------------
(* MessageExpire::retain_message_expire *)

\* a sweep that compares with > where the code compares with >=
RetainDeleteStrict(value, create_time, t) ==
    IF IsSome(value.retain_message)
    THEN IF IsSome(value.retain_message_expired_at)
         THEN t > create_time + Unwrap(value.retain_message_expired_at)
         ELSE FALSE
    ELSE FALSE

\* a sweep that clears every retained message it meets
RetainDeleteAlways(value, create_time, t) == IsSome(value.retain_message)

\* a sweep that takes retain_message_expired_at for a point in time as well and
\* passes over the records saved at or after it
RetainDeleteAbsolute(value, create_time, t) ==
    IF IsSome(value.retain_message)
    THEN IF IsSome(value.retain_message_expired_at)
         THEN /\ t >= create_time + Unwrap(value.retain_message_expired_at)
              /\ create_time < Unwrap(value.retain_message_expired_at)
         ELSE FALSE
    ELSE FALSE

\* lines 58-63: whether the record is cleared
RetainDelete(value, create_time, t) ==
    IF IsSome(value.retain_message)
    THEN IF IsSome(value.retain_message_expired_at)
         THEN t >= create_time + Unwrap(value.retain_message_expired_at)
         ELSE FALSE
    ELSE FALSE

\* a sweep that forgets to clear retain_message_expired_at
RetainClearMessageOnly(value) == [value EXCEPT !.retain_message = None]

\* lines 65-66: the record that is saved again
RetainClear(value) ==
    [value EXCEPT !.retain_message = None, !.retain_message_expired_at = None]

\* the stored record, if any, holds a retained message that is not due at t
RetainLive(stored, t) ==
    /\ IsSome(stored)
    /\ IsSome(Unwrap(stored).data.retain_message)
    /\ \/ ~IsSome(Unwrap(stored).data.retain_message_expired_at)
       \/ t < Unwrap(stored).create_time
                 + Unwrap(Unwrap(stored).data.retain_message_expired_at)

\* history: where the clock stood against the record's deadline when it was visited
RetainDue(value, create_time, t) ==
    IF ~IsSome(value.retain_message) THEN "no_retain"
    ELSE IF ~IsSome(value.retain_message_expired_at) THEN "no_expiry"
    ELSE IF t < create_time + Unwrap(value.retain_message_expired_at) THEN "early"
    ELSE IF t = create_time + Unwrap(value.retain_message_expired_at) THEN "exact"
    ELSE "late"

\* lines 28-33: build the iterator and seek to the cluster's topic prefix
RetainSeek ==
    /\ rpc = "start"
    /\ riter' = IterSeek(db, storage_key_mqtt_topic_cluster_prefix(SweepCluster))
    /\ rpc' = "scan"
    /\ UNCHANGED <<now, db, rlast, lpc, liter, llast>>
    /\ UNCHANGED <<cacheVars, svcVars>>

\* a loop body without the prefix check of lines 50-52 that saves under the
\* key it read
RetainVisitUnbounded ==
    /\ rpc = "scan"
    /\ riter # <<>>
    /\ RetainDecodes(Head(riter).value)
    /\ LET data == Head(riter).value
           value == data.data
           delete == RetainDelete(value, data.create_time, now)
       IN /\ db' = IF delete
                   THEN [db EXCEPT ![Head(riter).key] =
                            Some(StorageDataWrap(RetainClear(value), now))]
                   ELSE db
          /\ rlast' = Some([key |-> Head(riter).key, cleared |-> delete,
                            due |-> RetainDue(value, data.create_time, now),
                            erased |-> delete /\ RetainLive(db[Head(riter).key], now)])
    /\ riter' = Tail(riter)
    /\ UNCHANGED <<now, rpc, lpc, liter, llast>>
    /\ UNCHANGED <<cacheVars, svcVars>>

\* lines 34-77, one iteration on a key under the prefix: decode, decide, save, next
RetainVisit ==
    /\ rpc = "scan"
    /\ riter # <<>>
    /\ StartsWith(Head(riter).key, storage_key_mqtt_topic_cluster_prefix(SweepCluster))
    /\ RetainDecodes(Head(riter).value)
    /\ LET data == Head(riter).value
           value == data.data
           delete == RetainDelete(value, data.create_time, now)
       IN /\ db' = IF delete
                   THEN TopicStorageSave(db, SweepCluster, value.topic_name,
                                         RetainClear(value), now)
                   ELSE db
          /\ rlast' = Some([key |-> Head(riter).key, cleared |-> delete,
                            due |-> RetainDue(value, data.create_time, now),
                            erased |-> delete /\ RetainLive(db[Head(riter).key], now)])
    /\ riter' = Tail(riter)
    /\ UNCHANGED <<now, rpc, lpc, liter, llast>>
    /\ UNCHANGED <<cacheVars, svcVars>>

\* lines 55-56, a from_slice call returns Err: unwrap panics, the pass is
\* over and the iterator is dropped
RetainDecodeFails ==
    /\ rpc = "scan"
    /\ riter # <<>>
    /\ StartsWith(Head(riter).key, storage_key_mqtt_topic_cluster_prefix(SweepCluster))
    /\ ~RetainDecodes(Head(riter).value)
    /\ rpc' = "panicked"
    /\ riter' = <<>>
    /\ rlast' = None
    /\ UNCHANGED <<now, db, lpc, liter, llast>>
    /\ UNCHANGED <<cacheVars, svcVars>>

\* a sweep that gives up the pass when the save returns an error
RetainSaveFailsAborts ==
    /\ rpc = "scan"
    /\ riter # <<>>
    /\ StartsWith(Head(riter).key, storage_key_mqtt_topic_cluster_prefix(SweepCluster))
    /\ RetainDecodes(Head(riter).value)
    /\ RetainDelete(Head(riter).value.data, Head(riter).value.create_time, now)
    /\ rpc' = "failed"
    /\ riter' = <<>>
    /\ rlast' = None
    /\ UNCHANGED <<now, db, lpc, liter, llast>>
    /\ UNCHANGED <<cacheVars, svcVars>>

\* lines 64-76 when topic_storage.save returns Err: the error is logged,
\* nothing is written, iter.next()
RetainSaveFails ==
    /\ rpc = "scan"
    /\ riter # <<>>
    /\ StartsWith(Head(riter).key, storage_key_mqtt_topic_cluster_prefix(SweepCluster))
    /\ RetainDecodes(Head(riter).value)
    /\ RetainDelete(Head(riter).value.data, Head(riter).value.create_time, now)
    /\ rlast' = Some([key |-> Head(riter).key, cleared |-> FALSE,
                      due |-> RetainDue(Head(riter).value.data,
                                        Head(riter).value.create_time, now),
                      erased |-> FALSE])
    /\ riter' = Tail(riter)
    /\ UNCHANGED <<now, db, rpc, lpc, liter, llast>>
    /\ UNCHANGED <<cacheVars, svcVars>>

\* a loop that steps over a key outside the prefix and goes on
RetainBreakSkips ==
    /\ rpc = "scan"
    /\ riter # <<>>
    /\ ~StartsWith(Head(riter).key, storage_key_mqtt_topic_cluster_prefix(SweepCluster))
    /\ riter' = Tail(riter)
    /\ UNCHANGED <<now, db, rpc, rlast, lpc, liter, llast>>
    /\ UNCHANGED <<cacheVars, svcVars>>

\* lines 50-52: the key does not start with the prefix: break
RetainBreak ==
    /\ rpc = "scan"
    /\ riter # <<>>
    /\ ~StartsWith(Head(riter).key, storage_key_mqtt_topic_cluster_prefix(SweepCluster))
    /\ rpc' = "sleep"
    /\ riter' = <<>>
    /\ rlast' = None
    /\ UNCHANGED <<now, db, lpc, liter, llast>>
    /\ UNCHANGED <<cacheVars, svcVars>>

\* line 34: the iterator is no longer valid: the loop ends
RetainEnd ==
    /\ rpc = "scan"
    /\ riter = <<>>
    /\ rpc' = "sleep"
    /\ rlast' = None
    /\ UNCHANGED <<now, db, riter, lpc, liter, llast>>
    /\ UNCHANGED <<cacheVars, svcVars>>

\* line 78 and the caller's loop: the sleep is over, the next pass begins
RetainSleep ==
    /\ rpc = "sleep"
    /\ rpc' = "start"
    /\ UNCHANGED <<now, db, riter, rlast, lpc, liter, llast>>
    /\ UNCHANGED <<cacheVars, svcVars>>

-----------------------------------------------------------------------------
(* MessageExpire::last_will_message_expire *)

\* line 116: 86400 * 30, the expiry of a last will that names none
DefaultExpiry == 86400 * 30

\* a sweep that compares with > where the code compares with >=
LastWillDeleteStrict(value, create_time, t) ==
    IF IsSome(value.last_will_properties)
    THEN IF IsSome(Unwrap(value.last_will_properties).message_expiry_interval)
         THEN t > Unwrap(Unwrap(value.last_will_properties).message_expiry_interval)
                    + create_time
         ELSE t > DefaultExpiry + create_time
    ELSE FALSE

\* a sweep that deletes every last will that carries properties
LastWillDeleteAlways(value, create_time, t) == IsSome(value.last_will_properties)

\* lines 112-117: whether the record is deleted
LastWillDelete(value, create_time, t) ==
    IF IsSome(value.last_will_properties)
    THEN IF IsSome(Unwrap(value.last_will_properties).message_expiry_interval)
         THEN t >= Unwrap(Unwrap(value.last_will_properties).message_expiry_interval)
                    + create_time
         ELSE t >= DefaultExpiry + create_time
    ELSE FALSE

\* history: the expiry the spec gives the record, and where the clock stood against it
LastWillDue(value, create_time, t) ==
    LET e == IF /\ IsSome(value.last_will_properties)
                /\ IsSome(Unwrap(value.last_will_properties).message_expiry_interval)
             THEN Unwrap(Unwrap(value.last_will_properties).message_expiry_interval)
             ELSE DefaultExpiry
    IN IF t < create_time + e THEN "early"
       ELSE IF t = create_time + e THEN "exact"
       ELSE "late"

\* lines 82-87: build the iterator and seek to the cluster's last-will prefix
LastWillSeek ==
    /\ lpc = "start"
    /\ liter' = IterSeek(db, storage_key_mqtt_last_will_prefix(SweepCluster))
    /\ lpc' = "scan"
    /\ UNCHANGED <<now, db, rpc, riter, rlast, llast>>
    /\ UNCHANGED <<cacheVars, svcVars>>

\* lines 88-132, one iteration on a key under the prefix: decode, decide, delete, next
LastWillVisit ==
    /\ lpc = "scan"
    /\ liter # <<>>
    /\ StartsWith(Head(liter).key, storage_key_mqtt_last_will_prefix(SweepCluster))
    /\ LastWillDecodes(Head(liter).value)
    /\ LET data == Head(liter).value
           value == data.data
           delete == LastWillDelete(value, data.create_time, now)
       IN /\ db' = IF delete
                   THEN LastWillStorageDelete(db, SweepCluster, value.client_id)
                   ELSE db
          /\ llast' = Some([key |-> Head(liter).key, deleted |-> delete,
                            due |-> LastWillDue(value, data.create_time, now),
                            fresh |-> db[Head(liter).key] = Some(data)])
    /\ liter' = Tail(liter)
    /\ UNCHANGED <<now, rpc, riter, rlast, lpc>>
    /\ UNCHANGED <<cacheVars, svcVars>>

\* lines 110-111, a from_slice call returns Err: unwrap panics, the pass is
\* over and the iterator is dropped
LastWillDecodeFails ==
    /\ lpc = "scan"
    /\ liter # <<>>
    /\ StartsWith(Head(liter).key, storage_key_mqtt_last_will_prefix(SweepCluster))
    /\ ~LastWillDecodes(Head(liter).value)
    /\ lpc' = "panicked"
    /\ liter' = <<>>
    /\ llast' = None
    /\ UNCHANGED <<now, db, rpc, riter, rlast>>
    /\ UNCHANGED <<cacheVars, svcVars>>

\* lines 119-131 when delete_last_will_message returns Err: the error is
\* logged, nothing is deleted, iter.next()
LastWillDeleteFails ==
    /\ lpc = "scan"
    /\ liter # <<>>
    /\ StartsWith(Head(liter).key, storage_key_mqtt_last_will_prefix(SweepCluster))
    /\ LastWillDecodes(Head(liter).value)
    /\ LastWillDelete(Head(liter).value.data, Head(liter).value.create_time, now)
    /\ llast' = Some([key |-> Head(liter).key, deleted |-> FALSE,
                      due |-> LastWillDue(Head(liter).value.data,
                                          Head(liter).value.create_time, now),
                      fresh |-> db[Head(liter).key] = Some(Head(liter).value)])
    /\ liter' = Tail(liter)
    /\ UNCHANGED <<now, db, rpc, riter, rlast, lpc>>
    /\ UNCHANGED <<cacheVars, svcVars>>

\* lines 104-107: the key does not start with the prefix: next, then break
LastWillBreak ==
    /\ lpc = "scan"
    /\ liter # <<>>
    /\ ~StartsWith(Head(liter).key, storage_key_mqtt_last_will_prefix(SweepCluster))
    /\ lpc' = "sleep"
    /\ liter' = <<>>
    /\ llast' = None
    /\ UNCHANGED <<now, db, rpc, riter, rlast>>
    /\ UNCHANGED <<cacheVars, svcVars>>

\* line 88: the iterator is no longer valid: the loop ends
LastWillEnd ==
    /\ lpc = "scan"
    /\ liter = <<>>
    /\ lpc' = "sleep"
    /\ llast' = None
    /\ UNCHANGED <<now, db, rpc, riter, rlast, liter>>
    /\ UNCHANGED <<cacheVars, svcVars>>

\* line 133 and the caller's loop: the sleep is over, the next pass begins
LastWillSleep ==
    /\ lpc = "sleep"
    /\ lpc' = "start"
    /\ UNCHANGED <<now, db, rpc, riter, rlast, liter, llast>>
    /\ UNCHANGED <<cacheVars, svcVars>>

-----------------------------------------------------------------------------
(* The clock *)

\* the clock advances by d seconds
Tick(d) ==
    /\ now + d <= MaxTime
    /\ now' = now + d
    /\ UNCHANGED <<storeVars, svcVars>>
    /\ UNCHANGED <<cacheVars, svcVars>>

\* one second passes while the retained sweep sleeps: a pass takes no
\* measurable time and the sleep lasts one second
RetainTickTimed ==
    /\ rpc = "sleep"
    /\ now + 1 <= MaxTime
    /\ now' = now + 1
    /\ rpc' = "start"
    /\ UNCHANGED <<db, riter, rlast, lpc, liter, llast>>
    /\ UNCHANGED <<cacheVars, svcVars>>

\* the clock readings of the last-will model: the first seconds, then the last
\* second before the default expiry of a record saved at 0, and that deadline
ClockPoints == (0..MaxTime) \cup {DefaultExpiry - 1, DefaultExpiry}

\* the clock advances by a second, or by a second less than the default expiry
LastWillTick ==
    /\ \E d \in {1, DefaultExpiry - 1} :
          /\ now + d \in ClockPoints
          /\ now' = now + d
    /\ UNCHANGED <<storeVars, svcVars>>
    /\ UNCHANGED <<cacheVars, svcVars>>

\* one second passes while the last-will sweep sleeps: a pass takes no
\* measurable time and the sleep lasts one second
LastWillTickTimed ==
    /\ lpc = "sleep"
    /\ now + 1 <= MaxTime
    /\ now' = now + 1
    /\ lpc' = "start"
    /\ UNCHANGED <<db, rpc, riter, rlast, liter, llast>>
    /\ UNCHANGED <<cacheVars, svcVars>>

-----------------------------------------------------------------------------
(* MqttCacheManager: cluster_name -> (name -> value), a DashMap of DashMaps.   *)
(* A cluster with no entry in the outer map is None. The methods take &self    *)
(* and are called from concurrent tasks: a method whose lookup misses holds no *)
(* lock between the lookup and its insert into the outer map.                  *)

\* the topic names and client ids handed to the cache
Names == {"a", "b"}

\* the user names and connector names handed to the cache: a user and a
\* connector can carry the name of a topic
UserNames == {"a"}
ConnectorNames == {"a"}

\* the delays of the ExpireLastWill entries handed to the cache
Delays == 1..MaxTime

\* the tasks that call the cache
Callers == {"p1", "p2"}

\* DashMap::with_capacity(8)
DashMapNew == [x \in {} |-> x]

\* DashMap::insert(key, value)
DashMapInsert(m, key, value) ==
    [x \in (DOMAIN m) \cup {key} |-> IF x = key THEN value ELSE m[x]]

\* DashMap::remove(key)
DashMapRemove(m, key) == [x \in (DOMAIN m) \ {key} |-> m[x]]

\* the keys of a cluster's inner map; none when the cluster has no entry
NamesOf(list, c) == IF IsSome(list[c]) THEN DOMAIN Unwrap(list[c]) ELSE {}

\* the values of a cluster's inner map
ValuesOf(list, c) ==
    IF IsSome(list[c]) THEN {Unwrap(list[c])[x] : x \in DOMAIN Unwrap(list[c])} ELSE {}

\* the if-branch of the add_* methods: insert into the cluster's map
AddEntry(list, c, key, value) ==
    [list EXCEPT ![c] = Some(DashMapInsert(Unwrap(list[c]), key, value))]

\* the else-branch of the add_* methods, first half: a new map holding the entry
NewData(kind, c, key, value) ==
    [kind |-> kind, cluster |-> c, key |-> key,
     data |-> DashMapInsert(DashMapNew, key, value)]

\* the else-branch of the add_* methods, second half: the outer insert
InsertData(list, p) == [list EXCEPT ![p.cluster] = Some(p.data)]

\* a caller is free to enter the else-branch
CallerFree == Cardinality(pending) < Cardinality(Callers)

\* a removal that leaves the map as it is
RemoveNothing(list, c, key) == list

\* the body shared by the remove_* methods: remove from the cluster's map, if any
RemoveEntry(list, c, key) ==
    IF IsSome(list[c])
    THEN [list EXCEPT ![c] = Some(DashMapRemove(Unwrap(list[c]), key))]
    ELSE list

Op(op, c, n) == Some([op |-> op, cluster |-> c, name |-> n])

\* lines 57-62: the lookup, then the inner insert or the new map
add_topic(c, n) ==
    /\ IF IsSome(topic_list[c])
       THEN /\ topic_list' = AddEntry(topic_list, c, n, [topic_name |-> n])
            /\ last_op' = Op("add_topic", c, n)
            /\ UNCHANGED pending
       ELSE /\ CallerFree
            /\ pending' = pending \cup {NewData("topic", c, n, [topic_name |-> n])}
            /\ last_op' = None
            /\ UNCHANGED topic_list
    /\ after_add' = FALSE
    /\ UNCHANGED <<user_list, connector_list, expire_last_wills, live_wills, wills_result>>
    /\ UNCHANGED <<now, db, rpc, riter, rlast, lpc, liter, llast, svcVars, calls, broker>>

\* line 63
add_topic_insert ==
    \E p \in pending :
        /\ p.kind = "topic"
        /\ topic_list' = InsertData(topic_list, p)
        /\ pending' = pending \ {p}
        /\ last_op' = Op("add_topic", p.cluster, p.key)
        /\ after_add' = FALSE
        /\ UNCHANGED <<user_list, connector_list, expire_last_wills, live_wills, wills_result>>
        /\ UNCHANGED <<now, db, rpc, riter, rlast, lpc, liter, llast, svcVars, calls, broker>>

\* lines 67-71
remove_topic(c, n) ==
    /\ topic_list' = RemoveEntry(topic_list, c, n)
    /\ last_op' = Op("remove_topic", c, n)
    /\ after_add' = (last_op = Op("add_topic", c, n))
    /\ UNCHANGED <<user_list, connector_list, expire_last_wills, pending, live_wills, wills_result>>
    /\ UNCHANGED <<now, db, rpc, riter, rlast, lpc, liter, llast, svcVars, calls, broker>>

\* lines 74-79
add_user(c, n) ==
    /\ IF IsSome(user_list[c])
       THEN /\ user_list' = AddEntry(user_list, c, n, [username |-> n])
            /\ last_op' = Op("add_user", c, n)
            /\ UNCHANGED pending
       ELSE /\ CallerFree
            /\ pending' = pending \cup {NewData("user", c, n, [username |-> n])}
            /\ last_op' = None
            /\ UNCHANGED user_list
    /\ after_add' = FALSE
    /\ UNCHANGED <<topic_list, connector_list, expire_last_wills, live_wills, wills_result>>
    /\ UNCHANGED <<now, db, rpc, riter, rlast, lpc, liter, llast, svcVars, calls, broker>>

\* line 80
add_user_insert ==
    \E p \in pending :
        /\ p.kind = "user"
        /\ user_list' = InsertData(user_list, p)
        /\ pending' = pending \ {p}
        /\ last_op' = Op("add_user", p.cluster, p.key)
        /\ after_add' = FALSE
        /\ UNCHANGED <<topic_list, connector_list, expire_last_wills, live_wills, wills_result>>
        /\ UNCHANGED <<now, db, rpc, riter, rlast, lpc, liter, llast, svcVars, calls, broker>>

\* lines 84-88: the method looks the cluster up in topic_list
remove_user(c, n) ==
    /\ topic_list' = RemoveEntry(topic_list, c, n)
    /\ last_op' = Op("remove_user", c, n)
    /\ after_add' = (last_op = Op("add_user", c, n))
    /\ UNCHANGED <<user_list, connector_list, expire_last_wills, pending, live_wills, wills_result>>
    /\ UNCHANGED <<now, db, rpc, riter, rlast, lpc, liter, llast, svcVars, calls, broker>>

\* lines 124-129
add_connector(c, n) ==
    /\ IF IsSome(connector_list[c])
       THEN /\ connector_list' = AddEntry(connector_list, c, n, [connector_name |-> n])
            /\ last_op' = Op("add_connector", c, n)
            /\ UNCHANGED pending
       ELSE /\ CallerFree
            /\ pending' = pending \cup {NewData("connector", c, n, [connector_name |-> n])}
            /\ last_op' = None
            /\ UNCHANGED connector_list
    /\ after_add' = FALSE
    /\ UNCHANGED <<topic_list, user_list, expire_last_wills, live_wills, wills_result>>
    /\ UNCHANGED <<now, db, rpc, riter, rlast, lpc, liter, llast, svcVars, calls, broker>>

\* line 130
add_connector_insert ==
    \E p \in pending :
        /\ p.kind = "connector"
        /\ connector_list' = InsertData(connector_list, p)
        /\ pending' = pending \ {p}
        /\ last_op' = Op("add_connector", p.cluster, p.key)
        /\ after_add' = FALSE
        /\ UNCHANGED <<topic_list, user_list, expire_last_wills, live_wills, wills_result>>
        /\ UNCHANGED <<now, db, rpc, riter, rlast, lpc, liter, llast, svcVars, calls, broker>>

\* lines 134-138: the method looks the cluster up in topic_list
remove_connector(c, n) ==
    /\ topic_list' = RemoveEntry(topic_list, c, n)
    /\ last_op' = Op("remove_connector", c, n)
    /\ after_add' = (last_op = Op("add_connector", c, n))
    /\ UNCHANGED <<user_list, connector_list, expire_last_wills, pending, live_wills, wills_result>>
    /\ UNCHANGED <<now, db, rpc, riter, rlast, lpc, liter, llast, svcVars, calls, broker>>

\* ExpireLastWill { cluster_name, client_id, delay_sec }
ExpireLastWill(c, client, delay) ==
    [cluster_name |-> c, client_id |-> client, delay_sec |-> delay]

\* is_send_last_will(entry): now_second() >= entry.delay_sec
is_send_last_will(entry, t) == t >= entry.delay_sec

\* lines 111-121: the entries of the cluster that is_send_last_will accepts
get_expire_last_wills(list, c, t) ==
    {e \in ValuesOf(list, c) : is_send_last_will(e, t)}

\* history: the entry is recorded as added once its add_expire_last_will returned
LiveAdd(live, c, client, e) ==
    {x \in live : ~(x.cluster_name = c /\ x.client_id = client)} \cup {e}

\* lines 91-99
add_expire_last_will(e) ==
    /\ IF IsSome(expire_last_wills[e.cluster_name])
       THEN /\ expire_last_wills' =
                   AddEntry(expire_last_wills, e.cluster_name, e.client_id, e)
            /\ live_wills' = LiveAdd(live_wills, e.cluster_name, e.client_id, e)
            /\ UNCHANGED pending
       ELSE /\ CallerFree
            /\ pending' = pending \cup {NewData("expire", e.cluster_name, e.client_id, e)}
            /\ UNCHANGED <<expire_last_wills, live_wills>>
    /\ wills_result' = None
    /\ UNCHANGED <<topic_list, user_list, connector_list, last_op, after_add>>
    /\ UNCHANGED <<now, db, rpc, riter, rlast, lpc, liter, llast, svcVars, calls, broker>>

\* lines 100-101
add_expire_last_will_insert ==
    \E p \in pending :
        /\ p.kind = "expire"
        /\ expire_last_wills' = InsertData(expire_last_wills, p)
        /\ pending' = pending \ {p}
        /\ live_wills' = LiveAdd(live_wills, p.cluster, p.key, p.data[p.key])
        /\ wills_result' = None
        /\ UNCHANGED <<topic_list, user_list, connector_list, last_op, after_add>>
        /\ UNCHANGED <<now, db, rpc, riter, rlast, lpc, liter, llast, svcVars, calls, broker>>

\* lines 105-109
remove_expire_last_will(c, client) ==
    /\ expire_last_wills' = RemoveEntry(expire_last_wills, c, client)
    /\ live_wills' = {x \in live_wills : ~(x.cluster_name = c /\ x.client_id = client)}
    /\ wills_result' = None
    /\ UNCHANGED <<topic_list, user_list, connector_list, pending, last_op, after_add>>
    /\ UNCHANGED <<now, db, rpc, riter, rlast, lpc, liter, llast, svcVars, calls, broker>>

\* a caller reads get_expire_last_wills(cluster)
GetExpireLastWills(c) ==
    /\ wills_result' = Some([cluster |-> c,
                             entries |-> get_expire_last_wills(expire_last_wills, c, now)])
    /\ UNCHANGED <<topic_list, user_list, connector_list, expire_last_wills, pending,
                   last_op, after_add, live_wills>>
    /\ UNCHANGED <<now, db, rpc, riter, rlast, lpc, liter, llast, svcVars, calls, broker>>

\* a second passes; the value last read from the cache is dropped
CacheTick ==
    /\ now + 1 <= MaxTime
    /\ now' = now + 1
    /\ wills_result' = None
    /\ UNCHANGED <<topic_list, user_list, connector_list, expire_last_wills, pending,
                   last_op, after_add, live_wills>>
    /\ UNCHANGED <<storeVars, svcVars, calls, broker>>

-----------------------------------------------------------------------------
(* load_mqtt_cache: the warm-up of the cache from the metadata store *)

\* ClusterType::as_str_name() of the registered clusters
ClusterTypes == {"MqttBrokerServer", "JournalServer"}

\* MqttUser { username, .. }
MqttUser(name) == [username |-> name]

\* MqttUserStorage::save(cluster, username, content)
UserStorageSave(store, c, name, payload, t) ==
    [store EXCEPT ![Key(c, "user", name)] = Some(StorageDataWrap(payload, t))]

\* MqttUserStorage::delete(cluster, username)
UserStorageDelete(store, c, name) == [store EXCEPT ![Key(c, "user", name)] = None]

\* the list(cluster) of a record family: the payload of every record under the
\* cluster's prefix, in key order
StorageList(store, c, f) ==
    LET at == SelectSeq(FamilyKeys(c, f), LAMBDA k : IsSome(store[k]))
    IN [i \in 1..Len(at) |-> Unwrap(store[at[i]]).data]

\* placement_cache.get_all_cluster(): the registered clusters, in some order
AllClusterOrders ==
    LET reg == {c \in Clusters : IsSome(registry[c])}
    IN {q \in UNION {[1..n -> reg] : n \in 0..Cardinality(reg)} :
            /\ Len(q) = Cardinality(reg)
            /\ \A i, j \in 1..Len(q) : i # j => q[i] # q[j]}

\* a warm-up that loads the clusters of every type
LoadsEveryCluster(type) == TRUE

\* line 148: the clusters whose records are loaded
LoadsCluster(type) == type = "MqttBrokerServer"

\* an add_* call made by the one caller of the warm-up: the lookup and, where it
\* misses, the insert of the new map, with no other caller in between
AddCall(list, c, key, value) ==
    IF IsSome(list[c])
    THEN AddEntry(list, c, key, value)
    ELSE InsertData(list, NewData("load", c, key, value))

LoadUnchanged ==
    /\ UNCHANGED <<now, db, rpc, riter, rlast, lpc, liter, llast>>
    /\ UNCHANGED <<connector_list, expire_last_wills, pending, last_op, after_add,
                   live_wills, wills_result, calls, broker>>
    /\ UNCHANGED <<registry, cluster_cache, leader_reply, proposals, rpc_reply>>

\* line 147: the call starts and takes the list of clusters
LoadStart ==
    /\ loader.pc = "idle"
    /\ \E q \in AllClusterOrders :
           loader' = [pc |-> "cluster", clusters |-> q, items |-> <<>>]
    /\ UNCHANGED <<topic_list, user_list>>
    /\ LoadUnchanged

\* lines 147-151, 163: the next cluster: skipped, or its topics listed; Ok(())
\* after the last
LoadCluster ==
    /\ loader.pc = "cluster"
    /\ IF loader.clusters = <<>>
       THEN loader' = [loader EXCEPT !.pc = "ok"]
       ELSE IF LoadsCluster(Unwrap(registry[Head(loader.clusters)]))
       THEN loader' = [loader EXCEPT !.pc = "topics",
                          !.items = StorageList(db, Head(loader.clusters), "topic")]
       ELSE loader' = [loader EXCEPT !.clusters = Tail(loader.clusters)]
    /\ UNCHANGED <<topic_list, user_list>>
    /\ LoadUnchanged

\* lines 152-158: one add_topic, or the users listed after the last topic
LoadTopic ==
    /\ loader.pc = "topics"
    /\ IF loader.items # <<>>
       THEN /\ topic_list' = AddCall(topic_list, Head(loader.clusters),
                                     Head(loader.items).topic_name,
                                     [topic_name |-> Head(loader.items).topic_name])
            /\ loader' = [loader EXCEPT !.items = Tail(loader.items)]
       ELSE /\ loader' = [loader EXCEPT !.pc = "users",
                             !.items = StorageList(db, Head(loader.clusters), "user")]
            /\ UNCHANGED topic_list
    /\ UNCHANGED user_list
    /\ LoadUnchanged

\* lines 159-161: one add_user, or the next cluster after the last user
LoadUser ==
    /\ loader.pc = "users"
    /\ IF loader.items # <<>>
       THEN /\ user_list' = AddCall(user_list, Head(loader.clusters),
                                    Head(loader.items).username,
                                    MqttUser(Head(loader.items).username))
            /\ loader' = [loader EXCEPT !.items = Tail(loader.items)]
       ELSE /\ loader' = [loader EXCEPT !.pc = "cluster",
                             !.clusters = Tail(loader.clusters), !.items = <<>>]
            /\ UNCHANGED user_list
    /\ UNCHANGED topic_list
    /\ LoadUnchanged

\* lines 151, 158: list(..)? fails and the error is returned to the caller
LoadListFails ==
    /\ \/ /\ loader.pc = "cluster"
          /\ loader.clusters # <<>>
          /\ LoadsCluster(Unwrap(registry[Head(loader.clusters)]))
       \/ /\ loader.pc = "topics"
          /\ loader.items = <<>>
    /\ loader' = [loader EXCEPT !.pc = "err", !.items = <<>>]
    /\ UNCHANGED <<topic_list, user_list>>
    /\ LoadUnchanged

-----------------------------------------------------------------------------
(* GrpcMqttService::get_share_sub_leader *)

\* the broker ids of the nodes of a cluster
BrokerIds(c) == IF c = "c1" THEN {3, 7, 11} ELSE {3}

\* the share-subscription groups asked about
Groups == {"g1", "g2"}

\* BrokerNode { node_id, node_inner_addr, extend, .. } of a broker of the cluster
BrokerNode(c, id) ==
    [node_id |-> id, node_inner_addr |-> <<c, id>>, extend |-> <<"extend", c, id>>]

\* the stable hash of a group name
StableHash(group) == IF group = "g1" THEN 4 ELSE 9

\* the ids of a membership list
IdsOf(members) == {members[i] : i \in 1..Len(members)}

\* the orders in which a set of broker ids can be listed
OrdersOf(ids) ==
    {q \in [1..Cardinality(ids) -> ids] : \A i, j \in 1..Cardinality(ids) :
                                              i # j => q[i] # q[j]}

\* a membership list left in the order it came in
Unsorted(members) == members

\* the membership list sorted by ascending broker id
SortedIds(members) ==
    CHOOSE q \in OrdersOf(IdsOf(members)) :
        \A i, j \in 1..Len(q) : i < j => q[i] < q[j]

\* calc_share_sub_leader(cluster_name, group_name, cluster_cache): the hash of
\* the group name mapped onto the sorted live broker ids; NoBrokerAvailable
\* when there is none
calc_share_sub_leader(group, members) ==
    IF members = <<>>
    THEN [ok |-> FALSE, error |-> "NoBrokerAvailable"]
    ELSE [ok |-> TRUE,
          data |-> SortedIds(members)[(StableHash(group) % Len(members)) + 1]]

\* cluster_cache.get_node(cluster_name, node_id)
get_node(nodes, id) ==
    IF \E n \in nodes : n.node_id = id
    THEN Some(CHOOSE n \in nodes : n.node_id = id)
    ELSE None

\* GetShareSubLeaderReply::default()
ReplyDefault == [broker_id |-> 0, broker_addr |-> <<>>, extend_info |-> <<>>]

\* a handler that answers an election error with the default reply
LeaderErrorSwallowed(e) == [status |-> "OK", reply |-> ReplyDefault]

\* lines 65-67: Err(Status::cancelled(e.to_string()))
LeaderError(e) == [status |-> "CANCELLED", message |-> e]

\* a handler that names the elected broker whether or not it has a node record
LeaderReplyUnjoined(leader, node) ==
    [status |-> "OK",
     reply |-> IF IsSome(node)
               THEN [broker_id |-> leader,
                     broker_addr |-> Unwrap(node).node_inner_addr,
                     extend_info |-> Unwrap(node).extend]
               ELSE [ReplyDefault EXCEPT !.broker_id = leader]]

\* lines 57, 69-74: the reply, filled from the node record of the elected broker
LeaderReply(leader, node) ==
    [status |-> "OK",
     reply |-> IF IsSome(node)
               THEN [broker_id |-> leader,
                     broker_addr |-> Unwrap(node).node_inner_addr,
                     extend_info |-> Unwrap(node).extend]
               ELSE ReplyDefault]

ShareUnchanged ==
    /\ UNCHANGED <<now, storeVars, cacheVars>>
    /\ UNCHANGED <<registry, loader, proposals, rpc_reply>>

\* lines 50-75: one call of get_share_sub_leader(cluster_name, group_name)
GetShareSubLeader(c, group) ==
    /\ LET leader_broker == calc_share_sub_leader(group, cluster_cache[c].live)
       IN leader_reply' =
              Some([cluster |-> c, group |-> group,
                    elected |-> IF leader_broker.ok THEN Some(leader_broker.data)
                                ELSE None,
                    out |-> IF leader_broker.ok
                            THEN LeaderReply(leader_broker.data,
                                     get_node(cluster_cache[c].nodes, leader_broker.data))
                            ELSE LeaderError(leader_broker.error)])
    /\ UNCHANGED cluster_cache
    /\ ShareUnchanged

\* a broker of the cluster becomes live: the cache lists it at some position
BrokerJoin(c, id) ==
    /\ id \notin IdsOf(cluster_cache[c].live)
    /\ \E i \in 0..Len(cluster_cache[c].live) :
           cluster_cache' = [cluster_cache EXCEPT ![c].live =
               SubSeq(@, 1, i) \o <<id>> \o SubSeq(@, i + 1, Len(@))]
    /\ leader_reply' = None
    /\ ShareUnchanged

\* a live broker of the cluster goes away
BrokerLeave(c, id) ==
    /\ id \in IdsOf(cluster_cache[c].live)
    /\ cluster_cache' = [cluster_cache EXCEPT ![c].live =
                             SelectSeq(@, LAMBDA x : x # id)]
    /\ leader_reply' = None
    /\ ShareUnchanged

\* the node record of a broker is registered
NodeRegister(c, id) ==
    /\ BrokerNode(c, id) \notin cluster_cache[c].nodes
    /\ cluster_cache' = [cluster_cache EXCEPT ![c].nodes = @ \cup {BrokerNode(c, id)}]
    /\ leader_reply' = None
    /\ ShareUnchanged

\* the node record of a broker is removed
NodeUnregister(c, id) ==
    /\ BrokerNode(c, id) \in cluster_cache[c].nodes
    /\ cluster_cache' = [cluster_cache EXCEPT ![c].nodes = @ \ {BrokerNode(c, id)}]
    /\ leader_reply' = None
    /\ ShareUnchanged

-----------------------------------------------------------------------------
(* GrpcMqttService: the mutating and the listing RPCs *)

\* prost::Message::encode_to_vec(&req)
encode_to_vec(req) == <<"bytes", req>>

\* prost::Message::decode(bytes)
decode(bytes) == bytes[2]

\* StorageData::new(data_type, value)
StorageData(data_type, value) == [data_type |-> data_type, value |-> value]

\* a handler that replies success whatever apply_propose_message returned
RpcOutcomeAlwaysOk(label, result) == [rpc |-> label, status |-> "OK"]

\* lines 115-118 and alike: Ok(_) => CommonReply::default(),
\* Err(e) => Status::cancelled(e.to_string())
RpcOutcome(label, result) ==
    IF result.ok
    THEN [rpc |-> label, status |-> "OK"]
    ELSE [rpc |-> label, status |-> "CANCELLED", message |-> result.error]

RpcUnchanged ==
    /\ UNCHANGED <<now, rpc, riter, rlast, lpc, liter, llast, cacheVars>>
    /\ UNCHANGED <<registry, loader, cluster_cache, leader_reply>>

\* the first half of a mutating handler: the request is wrapped into one
\* StorageData and handed to apply_propose_message, which the handler awaits
Propose(label, data_type, req) ==
    /\ Len(proposals) < MaxProposals
    /\ proposals' = Append(proposals,
                        [label |-> label,
                         data |-> StorageData(data_type, encode_to_vec(req)),
                         state |-> "proposed"])
    /\ UNCHANGED <<db, rpc_reply>>
    /\ RpcUnchanged

\* lines 99-113
create_user(req) == Propose("create_user", "MQTTCreateUser", req)

\* lines 122-136
delete_user(req) == Propose("delete_user", "MQTTDeleteUser", req)

\* lines 145-158
create_topic(req) == Propose("create_topic", "MQTTCreateTopic", req)

\* lines 167-180
delete_topic(req) == Propose("delete_topic", "MQTTDeleteTopic", req)

\* lines 232-245
create_session(req) == Propose("create_session", "MQTTCreateSession", req)

\* lines 254-267
delete_session(req) == Propose("delete_session", "MQTTDeleteSession", req)

\* the state machine's apply step: the store write a committed StorageData stands for
ApplyData(store, data, t) ==
    LET req == decode(data.value)
    IN CASE data.data_type = "MQTTCreateUser" ->
                UserStorageSave(store, req.cluster_name, req.user_name, req.content, t)
         [] data.data_type = "MQTTDeleteUser" ->
                UserStorageDelete(store, req.cluster_name, req.user_name)
         [] data.data_type = "MQTTCreateTopic" ->
                TopicStorageSave(store, req.cluster_name, req.topic_name, req.content, t)
         [] data.data_type = "MQTTDeleteTopic" ->
                [store EXCEPT ![Key(req.cluster_name, "topic", req.topic_name)] = None]
         [] data.data_type = "MQTTCreateSession" ->
                [store EXCEPT ![Key(req.cluster_name, "session", req.client_id)] =
                                  Some(StorageDataWrap(req.session, t))]
         [] data.data_type = "MQTTDeleteSession" ->
                [store EXCEPT ![Key(req.cluster_name, "session", req.client_id)] = None]

\* the proposals not yet committed or rejected
Proposed == {i \in 1..Len(proposals) : proposals[i].state = "proposed"}

\* consensus commits the oldest outstanding proposal and the state machine
\* applies it to the store
Commit ==
    /\ Proposed # {}
    /\ LET i == CHOOSE x \in Proposed : \A y \in Proposed : x <= y
       IN /\ db' = ApplyData(db, proposals[i].data, now)
          /\ proposals' = [proposals EXCEPT ![i].state = "committed"]
    /\ UNCHANGED rpc_reply
    /\ RpcUnchanged

\* consensus rejects a proposal: not leader, or timed out
Reject ==
    /\ \E i \in Proposed : proposals' = [proposals EXCEPT ![i].state = "rejected"]
    /\ UNCHANGED <<db, rpc_reply>>
    /\ RpcUnchanged

\* the second half of a mutating handler: apply_propose_message returned and
\* the handler replies
Reply ==
    /\ \E i \in 1..Len(proposals) :
           /\ proposals[i].state \in {"committed", "rejected"}
           /\ rpc_reply' = Some([index |-> i,
                  out |-> RpcOutcome(proposals[i].label,
                              IF proposals[i].state = "committed"
                              THEN [ok |-> TRUE]
                              ELSE [ok |-> FALSE, error |-> "ConsensusError"])])
           /\ proposals' = [proposals EXCEPT ![i].state =
                               IF @ = "committed" THEN "replied_ok" ELSE "replied_err"]
    /\ UNCHANGED db
    /\ RpcUnchanged

\* storage.list(cluster_name, Some(name)): the envelope under the key, if any
StorageListOne(store, c, f, name) ==
    IF IsSome(store[Key(c, f, name)]) THEN <<Unwrap(store[Key(c, f, name)])>> ELSE <<>>

\* a listing that returns every record of the family in the cluster
ListAll(store, c, f, name) ==
    LET at == SelectSeq(FamilyKeys(c, f), LAMBDA k : IsSome(store[k]))
    IN [i \in 1..Len(at) |-> Unwrap(store[at[i]]).data]

\* lines 83-89 and alike: the data of every envelope storage.list returned
ListResult(store, c, f, name) ==
    LET data == StorageListOne(store, c, f, name)
    IN [i \in 1..Len(data) |-> data[i].data]

\* a listing handler: reads the store and replies
List(label, f, c, name) ==
    /\ rpc_reply' = Some([index |-> 0,
                          out |-> [rpc |-> label, status |-> "OK",
                                   cluster_name |-> c, name |-> name,
                                   records |-> ListResult(db, c, f, name)]])
    /\ UNCHANGED <<db, proposals>>
    /\ RpcUnchanged

\* lines 77-97
list_user(c, name) == List("list_user", "user", c, name)

\* lines 189-209
list_topic(c, name) == List("list_topic", "topic", c, name)

\* lines 211-230
list_session(c, name) == List("list_session", "session", c, name)

\* lines 93-95 and alike: storage.list failed
ListFails(label) ==
    /\ rpc_reply' = Some([index |-> 0,
                          out |-> [rpc |-> label, status |-> "CANCELLED",
                                   message |-> "StorageError"]])
    /\ UNCHANGED <<db, proposals>>
    /\ RpcUnchanged

-----------------------------------------------------------------------------
(* The cache methods step by step: the shard guards they hold *)

\* the methods followed step by step
LockedMethods == {"add_topic", "remove_topic", "get_expire_last_wills"}

\* the outer map a method works on
MapOf(method) ==
    IF method = "get_expire_last_wills" THEN "expire_last_wills" ELSE "topic_list"

\* get_mut and insert take a shard's write lock, get and iter its read lock
ModeOf(method) == IF method = "get_expire_last_wills" THEN "read" ELSE "write"

\* the shard of the outer map that holds the cluster's entry
OuterLock(method, c) ==
    [map |-> MapOf(method), level |-> "outer", cluster |-> c, mode |-> ModeOf(method)]

\* the shard of the cluster's inner map
InnerLock(method, c) ==
    [map |-> MapOf(method), level |-> "inner", cluster |-> c, mode |-> ModeOf(method)]

\* the shard locks a call holds: inside `if let Some(data) = ...get_mut(..)`
\* the guard `data` lives to the end of the block, and data.insert,
\* data.remove and list.iter lock a shard of the inner map meanwhile
HeldLocks(call) ==
    IF call.pc = "guard" THEN {OuterLock(call.method, call.cluster)}
    ELSE IF call.pc = "inner"
    THEN {OuterLock(call.method, call.cluster), InnerLock(call.method, call.cluster)}
    ELSE {}

LocksOf(p) == IF IsSome(calls[p]) THEN HeldLocks(Unwrap(calls[p])) ELSE {}

\* a shard lock can be taken when nobody else holds it, or all only read
CanLock(p, lock) ==
    \A q \in Callers \ {p} : \A h \in LocksOf(q) :
        (h.map = lock.map /\ h.level = lock.level /\ h.cluster = lock.cluster) =>
            (h.mode = "read" /\ lock.mode = "read")

CallUnchanged ==
    /\ UNCHANGED <<user_list, connector_list, pending, last_op, after_add, live_wills>>
    /\ UNCHANGED <<now, storeVars, svcVars, broker>>

\* lines 58, 68, 113: the lookup in the outer map; with no entry for the
\* cluster add_topic goes to its else-branch and the others return
CallLookup(p, method, c, n) ==
    /\ calls[p] = None
    /\ CanLock(p, OuterLock(method, c))
    /\ LET list == IF MapOf(method) = "topic_list" THEN topic_list
                   ELSE expire_last_wills
       IN IF IsSome(list[c])
          THEN /\ calls' = [calls EXCEPT ![p] =
                               Some([method |-> method, cluster |-> c, name |-> n,
                                     pc |-> "guard"])]
               /\ UNCHANGED wills_result
          ELSE IF method = "add_topic"
          THEN /\ calls' = [calls EXCEPT ![p] =
                               Some([method |-> method, cluster |-> c, name |-> n,
                                     pc |-> "else"])]
               /\ UNCHANGED wills_result
          ELSE /\ UNCHANGED calls
               /\ wills_result' =
                      IF method = "get_expire_last_wills"
                      THEN Some([cluster |-> c,
                                 entries |-> get_expire_last_wills(expire_last_wills, c, now)])
                      ELSE wills_result
    /\ UNCHANGED <<topic_list, expire_last_wills>>
    /\ CallUnchanged

\* lines 59, 69, 114: data.insert, data.remove or list.iter locks a shard of
\* the inner map
CallLockInner(p) ==
    /\ IsSome(calls[p])
    /\ Unwrap(calls[p]).pc = "guard"
    /\ CanLock(p, InnerLock(Unwrap(calls[p]).method, Unwrap(calls[p]).cluster))
    /\ calls' = [calls EXCEPT ![p] = Some([Unwrap(calls[p]) EXCEPT !.pc = "inner"])]
    /\ UNCHANGED <<topic_list, expire_last_wills, wills_result>>
    /\ CallUnchanged

\* lines 59-60, 69-70, 114-120: the insert, the remove or the iteration is
\* done and the block ends: both guards are dropped
CallFinish(p) ==
    /\ IsSome(calls[p])
    /\ Unwrap(calls[p]).pc = "inner"
    /\ LET call == Unwrap(calls[p])
       IN /\ topic_list' =
                 IF call.method = "add_topic"
                 THEN AddEntry(topic_list, call.cluster, call.name,
                               [topic_name |-> call.name])
                 ELSE IF call.method = "remove_topic"
                 THEN RemoveEntry(topic_list, call.cluster, call.name)
                 ELSE topic_list
          /\ wills_result' =
                 IF call.method = "get_expire_last_wills"
                 THEN Some([cluster |-> call.cluster,
                            entries |-> get_expire_last_wills(expire_last_wills,
                                                              call.cluster, now)])
                 ELSE wills_result
    /\ calls' = [calls EXCEPT ![p] = None]
    /\ UNCHANGED expire_last_wills
    /\ CallUnchanged

\* lines 61-63: the new map, then the insert into the outer map
CallElseInsert(p) ==
    /\ IsSome(calls[p])
    /\ Unwrap(calls[p]).pc = "else"
    /\ CanLock(p, OuterLock("add_topic", Unwrap(calls[p]).cluster))
    /\ LET call == Unwrap(calls[p])
       IN topic_list' = InsertData(topic_list,
                            NewData("topic", call.cluster, call.name,
                                    [topic_name |-> call.name]))
    /\ calls' = [calls EXCEPT ![p] = None]
    /\ UNCHANGED <<expire_last_wills, wills_result>>
    /\ CallUnchanged

-----------------------------------------------------------------------------
(* The broker's TopicStorage *)

\* the topics the broker's clients save: a name and one of two versions
BrokerTopic(name, version) == [topic_name |-> name, version |-> version]

\* serde_json::to_string(topic)
to_string(topic) == <<"json", topic>>

\* serde_json::from_slice(&da.data)
from_slice(data) == data[2]

\* Record::build_e(data)
build_e(data) == [data |-> data]

\* TopicStorage::new over an empty adapter: nothing indexed under
\* all_topic_key, no record under any topic_key, no call in progress
BrokerNew ==
    [index |-> {},
     kv |-> [n \in Names |-> None],
     saves |-> [p \in Callers |-> None],
     listing |-> None,
     out |-> None]

\* a save that skips the index
add_info_for_none(index, name) == index

\* AllInfoStorage::add_info_for_all(name): the name joins the index
add_info_for_all(index, name) == index \cup {name}

\* lines 29-39: the topic is encoded and its name recorded in the index; the
\* call then awaits the adapter
save_topic(p, name, topic) ==
    /\ broker.saves[p] = None
    /\ broker' = [broker EXCEPT
                     !.index = add_info_for_all(broker.index, name),
                     !.saves[p] = Some([name |-> name, data |-> to_string(topic)])]
    /\ UNCHANGED <<now, storeVars, svcVars>>
    /\ UNCHANGED <<topic_list, user_list, connector_list, expire_last_wills, pending,
                   last_op, after_add, live_wills, wills_result, calls>>

\* line 38: add_info_for_all returned Err and save_topic returns it
save_topic_index_fails(p, name) ==
    /\ broker.saves[p] = None
    /\ broker' = [broker EXCEPT
                     !.out = Some([op |-> "save_topic", status |-> "Err",
                                   name |-> name])]
    /\ UNCHANGED <<now, storeVars, svcVars>>
    /\ UNCHANGED <<topic_list, user_list, connector_list, expire_last_wills, pending,
                   last_op, after_add, live_wills, wills_result, calls>>

\* lines 40-43: kv_set(key, Record::build_e(data)) returned Ok, and so does
\* save_topic; a topic_list in progress has the name written behind its back
save_topic_set(p) ==
    /\ IsSome(broker.saves[p])
    /\ LET call == Unwrap(broker.saves[p])
       IN broker' = [broker EXCEPT
                        !.kv[call.name] = Some(build_e(call.data)),
                        !.saves[p] = None,
                        !.listing = IF IsSome(broker.listing)
                                    THEN Some([Unwrap(broker.listing) EXCEPT
                                                  !.dirty = @ \cup {call.name}])
                                    ELSE None,
                        !.out = Some([op |-> "save_topic", status |-> "Ok",
                                      name |-> call.name])]
    /\ UNCHANGED <<now, storeVars, svcVars>>
    /\ UNCHANGED <<topic_list, user_list, connector_list, expire_last_wills, pending,
                   last_op, after_add, live_wills, wills_result, calls>>

\* lines 40-43: kv_set returned Err, and so does save_topic: the name stays
\* in the index without a record
save_topic_set_fails(p) ==
    /\ IsSome(broker.saves[p])
    /\ broker' = [broker EXCEPT
                     !.saves[p] = None,
                     !.out = Some([op |-> "save_topic", status |-> "Err",
                                   name |-> Unwrap(broker.saves[p]).name])]
    /\ UNCHANGED <<now, storeVars, svcVars>>
    /\ UNCHANGED <<topic_list, user_list, connector_list, expire_last_wills, pending,
                   last_op, after_add, live_wills, wills_result, calls>>

\* lines 77-99: kv_get(topic_key(name)), then the record decoded, or None
get_topic(kv, name) ==
    IF IsSome(kv[name]) THEN Some(from_slice(Unwrap(kv[name]).data)) ELSE None

\* a caller reads get_topic(name)
GetTopic(name) ==
    /\ broker' = [broker EXCEPT
                     !.out = Some([op |-> "get_topic", status |-> "Ok", name |-> name,
                                   value |-> get_topic(broker.kv, name)])]
    /\ UNCHANGED <<now, storeVars, svcVars>>
    /\ UNCHANGED <<topic_list, user_list, connector_list, expire_last_wills, pending,
                   last_op, after_add, live_wills, wills_result, calls>>

\* lines 55-57: get_all() returned the indexed names; the list is empty.
\* History: the names that hold a record now, and those written since
topic_list_start ==
    /\ broker.listing = None
    /\ broker' = [broker EXCEPT
                     !.listing = Some([todo |-> broker.index,
                                       list |-> [n \in {} |-> n],
                                       had |-> {n \in Names : IsSome(broker.kv[n])},
                                       dirty |-> {}])]
    /\ UNCHANGED <<now, storeVars, svcVars>>
    /\ UNCHANGED <<topic_list, user_list, connector_list, expire_last_wills, pending,
                   last_op, after_add, live_wills, wills_result, calls>>

\* the list after one iteration of lines 58-69 on a name: a topic found is
\* inserted, a name without a record is passed over
ListInsert(list, name, found) ==
    IF IsSome(found)
    THEN [n \in (DOMAIN list) \cup {name} |->
              IF n = name THEN Unwrap(found) ELSE list[n]]
    ELSE list

\* lines 58-69: one iteration
topic_list_get ==
    /\ IsSome(broker.listing)
    /\ \E name \in Unwrap(broker.listing).todo :
          broker' = [broker EXCEPT
                        !.listing = Some([Unwrap(broker.listing) EXCEPT
                            !.todo = @ \ {name},
                            !.list = ListInsert(@, name, get_topic(broker.kv, name))])]
    /\ UNCHANGED <<now, storeVars, svcVars>>
    /\ UNCHANGED <<topic_list, user_list, connector_list, expire_last_wills, pending,
                   last_op, after_add, live_wills, wills_result, calls>>

\* lines 65-67 and 72: get_topic or get_all returned Err and topic_list
\* returns it
topic_list_fails ==
    /\ \/ broker.listing = None
       \/ IsSome(broker.listing) /\ Unwrap(broker.listing).todo # {}
    /\ broker' = [broker EXCEPT
                     !.listing = None,
                     !.out = Some([op |-> "topic_list", status |-> "Err"])]
    /\ UNCHANGED <<now, storeVars, svcVars>>
    /\ UNCHANGED <<topic_list, user_list, connector_list, expire_last_wills, pending,
                   last_op, after_add, live_wills, wills_result, calls>>

\* line 70: every name is done: return Ok(list)
topic_list_return ==
    /\ IsSome(broker.listing)
    /\ Unwrap(broker.listing).todo = {}
    /\ broker' = [broker EXCEPT
                     !.listing = None,
                     !.out = Some([op |-> "topic_list", status |-> "Ok",
                                   list |-> Unwrap(broker.listing).list])]
    /\ UNCHANGED <<now, storeVars, svcVars>>
    /\ UNCHANGED <<topic_list, user_list, connector_list, expire_last_wills, pending,
                   last_op, after_add, live_wills, wills_result, calls>>

-----------------------------------------------------------------------------
(* Specifications *)

InitCache ==
    /\ topic_list = [c \in Clusters |-> None]
    /\ user_list = [c \in Clusters |-> None]
    /\ connector_list = [c \in Clusters |-> None]
    /\ expire_last_wills = [c \in Clusters |-> None]
    /\ pending = {}
    /\ last_op = None
    /\ after_add = FALSE
    /\ live_wills = {}
    /\ wills_result = None
    /\ calls = [p \in Callers |-> None]
    /\ broker = BrokerNew

\* every cluster registered as an MQTT broker cluster, no broker alive, no
\* call of load_mqtt_cache or of the gRPC service made
InitService ==
    /\ registry = [c \in Clusters |-> Some("MqttBrokerServer")]
    /\ loader = [pc |-> "idle", clusters |-> <<>>, items |-> <<>>]
    /\ cluster_cache = [c \in Clusters |-> [live |-> <<>>, nodes |-> {}]]
    /\ leader_reply = None
    /\ proposals = <<>>
    /\ rpc_reply = None

Init ==
    /\ now = 0
    /\ db = [k \in Keys |-> None]
    /\ rpc = "start"
    /\ riter = <<>>
    /\ rlast = None
    /\ lpc = "start"
    /\ liter = <<>>
    /\ llast = None
    /\ InitCache
    /\ InitService

\* the retained-message sweep of SweepCluster beside the writers of topic records
Next ==
    \/ TopicWriter
    \/ OtherTopicCreate
    \/ RetainSeek
    \/ RetainVisit
    \/ RetainBreak
    \/ RetainEnd
    \/ RetainSleep
    \/ Tick(1)

Spec == Init /\ [][Next]_vars

\* the same with the sweep's timing: passes one second apart
NextTimed ==
    \/ TopicWriter
    \/ OtherTopicCreate
    \/ RetainSeek
    \/ RetainVisit
    \/ RetainBreak
    \/ RetainEnd
    \/ RetainTickTimed

SpecTimed ==
    /\ Init
    /\ [][NextTimed]_vars
    /\ WF_vars(RetainSeek)
    /\ WF_vars(RetainVisit)
    /\ WF_vars(RetainBreak)
    /\ WF_vars(RetainEnd)
    /\ WF_vars(RetainTickTimed)

\* the last-will sweep of SweepCluster beside the writers of last-will records
NextLastWill ==
    \/ LastWillSave
    \/ LastWillSeek
    \/ LastWillVisit
    \/ LastWillBreak
    \/ LastWillEnd
    \/ LastWillSleep
    \/ LastWillTick

SpecLastWill == Init /\ [][NextLastWill]_vars

\* the same with the sweep's timing: passes one second apart
NextLastWillTimed ==
    \/ LastWillSave
    \/ LastWillSeek
    \/ LastWillVisit
    \/ LastWillBreak
    \/ LastWillEnd
    \/ LastWillTickTimed

SpecLastWillTimed ==
    /\ Init
    /\ [][NextLastWillTimed]_vars
    /\ WF_vars(LastWillSeek)
    /\ WF_vars(LastWillVisit)
    /\ WF_vars(LastWillBreak)
    /\ WF_vars(LastWillEnd)
    /\ WF_vars(LastWillTickTimed)

\* the callers of the cache's topic, user and connector methods
NextCache ==
    \/ \E c \in Clusters, n \in Names : add_topic(c, n) \/ remove_topic(c, n)
    \/ \E c \in Clusters, n \in UserNames : add_user(c, n) \/ remove_user(c, n)
    \/ \E c \in Clusters, n \in ConnectorNames :
           add_connector(c, n) \/ remove_connector(c, n)
    \/ add_topic_insert
    \/ add_user_insert
    \/ add_connector_insert

SpecCache == Init /\ [][NextCache]_vars

\* the callers of the cache's expire-last-will methods, and the clock
NextExpire ==
    \/ \E c \in Clusters, n \in Names, d \in Delays :
           add_expire_last_will(ExpireLastWill(c, n, d))
    \/ add_expire_last_will_insert
    \/ \E c \in Clusters, n \in Names : remove_expire_last_will(c, n)
    \/ \E c \in Clusters : GetExpireLastWills(c)
    \/ CacheTick

SpecExpire == Init /\ [][NextExpire]_vars

\* PlacementCacheManager::add_cluster: a cluster registers
RegisterCluster(c, type) ==
    /\ registry[c] = None
    /\ registry' = [registry EXCEPT ![c] = Some(type)]
    /\ UNCHANGED <<now, storeVars, cacheVars>>
    /\ UNCHANGED <<loader, cluster_cache, leader_reply, proposals, rpc_reply>>

\* a cache built beside a registry that holds no cluster yet
InitRegistry ==
    /\ now = 0
    /\ db = [k \in Keys |-> None]
    /\ rpc = "start"
    /\ riter = <<>>
    /\ rlast = None
    /\ lpc = "start"
    /\ liter = <<>>
    /\ llast = None
    /\ InitCache
    /\ registry = [c \in Clusters |-> None]
    /\ loader = [pc |-> "idle", clusters |-> <<>>, items |-> <<>>]
    /\ cluster_cache = [c \in Clusters |-> [live |-> <<>>, nodes |-> {}]]
    /\ leader_reply = None
    /\ proposals = <<>>
    /\ rpc_reply = None

\* the callers of add_topic, remove_topic and add_expire_last_will, and the
\* clusters that register
NextRegistry ==
    \/ \E c \in Clusters, n \in UserNames : add_topic(c, n) \/ remove_topic(c, n)
    \/ add_topic_insert
    \/ \E c \in Clusters, n \in UserNames :
           add_expire_last_will(ExpireLastWill(c, n, MaxTime))
    \/ add_expire_last_will_insert
    \/ \E c \in Clusters, t \in ClusterTypes : RegisterCluster(c, t)

SpecRegistry == InitRegistry /\ [][NextRegistry]_vars

\* the store and the registry the process starts with: any records of the
\* topic and user families, each cluster unregistered or of either type
InitLoad ==
    /\ now = 0
    /\ \E present \in SUBSET (TopicKeys \cup UserKeys) :
           db = [k \in Keys |->
                    IF k \in present
                    THEN Some(StorageDataWrap(
                             IF k.family = "topic"
                             THEN MQTTTopicNew("id1", k.name)
                             ELSE MqttUser(k.name), 0))
                    ELSE None]
    /\ rpc = "start"
    /\ riter = <<>>
    /\ rlast = None
    /\ lpc = "start"
    /\ liter = <<>>
    /\ llast = None
    /\ InitCache
    /\ registry \in [Clusters -> {None} \cup {Some(t) : t \in ClusterTypes}]
    /\ loader = [pc |-> "idle", clusters |-> <<>>, items |-> <<>>]
    /\ cluster_cache = [c \in Clusters |-> [live |-> <<>>, nodes |-> {}]]
    /\ leader_reply = None
    /\ proposals = <<>>
    /\ rpc_reply = None

\* one call of load_mqtt_cache at process start
NextLoad ==
    \/ LoadStart
    \/ LoadCluster
    \/ LoadTopic
    \/ LoadUser
    \/ LoadListFails

SpecLoad == InitLoad /\ [][NextLoad]_vars

\* the callers of get_share_sub_leader beside the brokers that come and go
NextShare ==
    \/ \E c \in Clusters, g \in Groups : GetShareSubLeader(c, g)
    \/ \E c \in Clusters : \E id \in BrokerIds(c) :
           \/ BrokerJoin(c, id)
           \/ BrokerLeave(c, id)
           \/ NodeRegister(c, id)
           \/ NodeUnregister(c, id)

SpecShare == Init /\ [][NextShare]_vars

\* the requests of the clients of the service
CreateUserRequest(c, name, content) ==
    [cluster_name |-> c, user_name |-> name, content |-> content]
DeleteUserRequest(c, name) == [cluster_name |-> c, user_name |-> name]
CreateTopicRequest(c, name, content) ==
    [cluster_name |-> c, topic_name |-> name, content |-> content]
DeleteTopicRequest(c, name) == [cluster_name |-> c, topic_name |-> name]
CreateSessionRequest(c, client) ==
    [cluster_name |-> c, client_id |-> client, session |-> [client_id |-> client]]
DeleteSessionRequest(c, client) == [cluster_name |-> c, client_id |-> client]

\* the gRPC service with one user, one topic and one session of cluster c1
NextRpc ==
    \/ create_user(CreateUserRequest("c1", "u1", MqttUser("u1")))
    \/ delete_user(DeleteUserRequest("c1", "u1"))
    \/ create_topic(CreateTopicRequest("c1", "t1", MQTTTopicNew("id1", "t1")))
    \/ delete_topic(DeleteTopicRequest("c1", "t1"))
    \/ create_session(CreateSessionRequest("c1", "k1"))
    \/ delete_session(DeleteSessionRequest("c1", "k1"))
    \/ Commit
    \/ Reject
    \/ Reply
    \/ list_user("c1", "u1")
    \/ list_topic("c1", "t1")
    \/ list_session("c1", "k1")
    \/ \E label \in {"list_user", "list_topic", "list_session"} : ListFails(label)

SpecRpc == Init /\ [][NextRpc]_vars

\* the user records the clients submit: the name and one of two passwords
UserContents(name) == {[username |-> name, password |-> p] : p \in {"p1", "p2"}}

\* the user RPCs of cluster c1: u1 is created, created again and deleted, u2
\* is created
NextUser ==
    \/ \E content \in UserContents("u1") :
           create_user(CreateUserRequest("c1", "u1", content))
    \/ \E content \in UserContents("u2") :
           create_user(CreateUserRequest("c1", "u2", content))
    \/ delete_user(DeleteUserRequest("c1", "u1"))
    \/ Commit
    \/ Reject
    \/ Reply
    \/ \E name \in {"u1", "u2"} : list_user("c1", name)
    \/ ListFails("list_user")

SpecUser == Init /\ [][NextUser]_vars

\* the topic records the clients submit for t1: a new topic, or one that
\* carries a retained message and its expiry
TopicContents(name) ==
    {MQTTTopicNew("id1", name)} \cup
    {[MQTTTopicNew("id1", name) EXCEPT !.retain_message = Some(m),
                                       !.retain_message_expired_at = Some(e)] :
        m \in Messages, e \in Expiries}

\* the store holds the last will of client k1, saved at time 0 with an expiry
\* of one second
InitLifecycle ==
    /\ now = 0
    /\ db = LastWillStorageSave([k \in Keys |-> None], SweepCluster, "k1",
                LastWillData("k1", Some([message_expiry_interval |-> Some(1)])), 0)
    /\ rpc = "start"
    /\ riter = <<>>
    /\ rlast = None
    /\ lpc = "start"
    /\ liter = <<>>
    /\ llast = None
    /\ InitCache
    /\ InitService

\* the proposals of the swept cluster (topic t1 created and deleted, user u1,
\* whose key follows the topic prefix, created), their commits, and both sweeps
NextLifecycle ==
    \/ \E content \in TopicContents("t1") :
           create_topic(CreateTopicRequest(SweepCluster, "t1", content))
    \/ delete_topic(DeleteTopicRequest(SweepCluster, "t1"))
    \/ create_user(CreateUserRequest(SweepCluster, "u1", MqttUser("u1")))
    \/ Commit
    \/ RetainSeek
    \/ RetainVisit
    \/ RetainBreak
    \/ RetainEnd
    \/ RetainSleep
    \/ LastWillSeek
    \/ LastWillVisit
    \/ LastWillBreak
    \/ LastWillEnd
    \/ LastWillSleep
    \/ Tick(1)

SpecLifecycle == InitLifecycle /\ [][NextLifecycle]_vars

\* what the store can hold under a topic key of the swept cluster: nothing,
\* a topic with a retained message saved at 0, bytes that are no envelope, an
\* envelope around bytes that are no topic
StoredTopics(name) ==
    {None,
     Some(StorageDataWrap([MQTTTopicNew("id1", name) EXCEPT
                               !.retain_message = Some("m1"),
                               !.retain_message_expired_at = Some(1)], 0)),
     Some(Garbage),
     Some(StorageDataWrap(Garbage, 0))}

\* the same under a last-will key
StoredLastWills(client) ==
    {None,
     Some(StorageDataWrap(
              LastWillData(client, Some([message_expiry_interval |-> Some(1)])), 0)),
     Some(Garbage),
     Some(StorageDataWrap(Garbage, 0))}

\* a store whose records under the swept prefixes may be malformed; user u1
\* of the swept cluster, whose key follows the topic prefix, may be there
InitMalformed ==
    /\ now = 0
    /\ \E t1 \in StoredTopics("t1"), t2 \in StoredTopics("t2"),
          k1 \in StoredLastWills("k1"), k2 \in StoredLastWills("k2"),
          u1 \in {None, Some(StorageDataWrap(MqttUser("u1"), 0))} :
          db = [k \in Keys |->
                  IF k = Key(SweepCluster, "topic", "t1") THEN t1
                  ELSE IF k = Key(SweepCluster, "topic", "t2") THEN t2
                  ELSE IF k = Key(SweepCluster, "lastwill", "k1") THEN k1
                  ELSE IF k = Key(SweepCluster, "lastwill", "k2") THEN k2
                  ELSE IF k = Key(SweepCluster, "user", "u1") THEN u1
                  ELSE None]
    /\ rpc = "start"
    /\ riter = <<>>
    /\ rlast = None
    /\ lpc = "start"
    /\ liter = <<>>
    /\ llast = None
    /\ InitCache
    /\ InitService

\* both sweeps over that store
NextMalformed ==
    \/ RetainSeek
    \/ RetainVisit
    \/ RetainDecodeFails
    \/ RetainBreak
    \/ RetainEnd
    \/ RetainSleep
    \/ LastWillSeek
    \/ LastWillVisit
    \/ LastWillDecodeFails
    \/ LastWillBreak
    \/ LastWillEnd
    \/ LastWillSleep
    \/ Tick(1)

SpecMalformed == InitMalformed /\ [][NextMalformed]_vars

\* the record a key of the store holds when it holds one, saved at time 0:
\* a topic with a retained message and a last will that expire after one
\* second, a session, a user
StoredRecord(k) ==
    StorageDataWrap(
        IF k.family = "topic"
        THEN [MQTTTopicNew("id1", k.name) EXCEPT
                  !.retain_message = Some("m1"),
                  !.retain_message_expired_at = Some(1)]
        ELSE IF k.family = "lastwill"
        THEN LastWillData(k.name, Some([message_expiry_interval |-> Some(1)]))
        ELSE IF k.family = "session"
        THEN [session_id |-> k.name]
        ELSE MqttUser(k.name), 0)

\* the keys the stores of InitFrame choose from: topic t1, last will k1,
\* session k1 and user u1 of the swept cluster, topic t1 and last will k1 of
\* the other
FrameKeys ==
    {Key("c1", "topic", "t1"), Key("c1", "lastwill", "k1"),
     Key("c1", "session", "k1"), Key("c1", "user", "u1"),
     Key("c2", "topic", "t1"), Key("c2", "lastwill", "k1")}

\* a store with records of every family and of both clusters
InitFrame ==
    /\ now = 0
    /\ \E present \in SUBSET FrameKeys :
          db = [k \in Keys |-> IF k \in present THEN Some(StoredRecord(k)) ELSE None]
    /\ rpc = "start"
    /\ riter = <<>>
    /\ rlast = None
    /\ lpc = "start"
    /\ liter = <<>>
    /\ llast = None
    /\ InitCache
    /\ InitService

\* both sweeps of the swept cluster over that store, and the clock
NextFrame ==
    \/ RetainSeek
    \/ RetainVisit
    \/ RetainBreak
    \/ RetainEnd
    \/ RetainSleep
    \/ LastWillSeek
    \/ LastWillVisit
    \/ LastWillBreak
    \/ LastWillEnd
    \/ LastWillSleep
    \/ Tick(1)

SpecFrame == InitFrame /\ [][NextFrame]_vars

\* the cache after add_expire_last_will of client k1 of cluster c1, due at
\* second 1
InitLocks ==
    /\ now = 0
    /\ db = [k \in Keys |-> None]
    /\ rpc = "start"
    /\ riter = <<>>
    /\ rlast = None
    /\ lpc = "start"
    /\ liter = <<>>
    /\ llast = None
    /\ topic_list = [c \in Clusters |-> None]
    /\ user_list = [c \in Clusters |-> None]
    /\ connector_list = [c \in Clusters |-> None]
    /\ expire_last_wills =
           AddCall([c \in Clusters |-> None], "c1", "k1", ExpireLastWill("c1", "k1", 1))
    /\ pending = {}
    /\ last_op = None
    /\ after_add = FALSE
    /\ live_wills = {ExpireLastWill("c1", "k1", 1)}
    /\ wills_result = None
    /\ calls = [p \in Callers |-> None]
    /\ broker = BrokerNew
    /\ InitService

\* two callers of add_topic, remove_topic and get_expire_last_wills, step by
\* step, and the clock
NextLocks ==
    \/ \E p \in Callers, method \in LockedMethods, c \in Clusters, n \in Names :
           CallLookup(p, method, c, n)
    \/ \E p \in Callers : CallLockInner(p)
    \/ \E p \in Callers : CallFinish(p)
    \/ \E p \in Callers : CallElseInsert(p)
    \/ CacheTick

SpecLocks == InitLocks /\ [][NextLocks]_vars

\* the keys the stores of InitStoreErrors choose from: two topics, two last
\* wills and a user of the swept cluster
StoreErrorKeys ==
    {Key("c1", "topic", "t1"), Key("c1", "topic", "t2"),
     Key("c1", "lastwill", "k1"), Key("c1", "lastwill", "k2"),
     Key("c1", "user", "u1")}

InitStoreErrors ==
    /\ now = 0
    /\ \E present \in SUBSET StoreErrorKeys :
          db = [k \in Keys |-> IF k \in present THEN Some(StoredRecord(k)) ELSE None]
    /\ rpc = "start"
    /\ riter = <<>>
    /\ rlast = None
    /\ lpc = "start"
    /\ liter = <<>>
    /\ llast = None
    /\ InitCache
    /\ InitService

\* both sweeps over a store whose save and delete may return an error
NextStoreErrors ==
    \/ RetainSeek
    \/ RetainVisit
    \/ RetainSaveFails
    \/ RetainBreak
    \/ RetainEnd
    \/ RetainSleep
    \/ LastWillSeek
    \/ LastWillVisit
    \/ LastWillDeleteFails
    \/ LastWillBreak
    \/ LastWillEnd
    \/ LastWillSleep
    \/ Tick(1)

SpecStoreErrors == InitStoreErrors /\ [][NextStoreErrors]_vars

\* two tasks that save the topics a and b in two versions, a task that
\* lists the topics and one that reads single topics
NextBroker ==
    \/ \E p \in Callers, n \in Names, v \in {1, 2} : save_topic(p, n, BrokerTopic(n, v))
    \/ \E p \in Callers, n \in Names : save_topic_index_fails(p, n)
    \/ \E p \in Callers : save_topic_set(p)
    \/ \E p \in Callers : save_topic_set_fails(p)
    \/ \E n \in Names : GetTopic(n)
    \/ topic_list_start
    \/ topic_list_get
    \/ topic_list_fails
    \/ topic_list_return

SpecBroker == Init /\ [][NextBroker]_vars

-----------------------------------------------------------------------------
(* Properties of the retained-message sweep *)

SweptTopicKeys == {k \in TopicKeys : k.cluster = SweepCluster}

\* the step is one iteration of the retained sweep's loop on a key under its prefix
RetainVisitStep ==
    /\ rpc = "scan"
    /\ rpc' = "scan"
    /\ riter # <<>>
    /\ riter' = Tail(riter)
    /\ StartsWith(Head(riter).key, storage_key_mqtt_topic_cluster_prefix(SweepCluster))

\* the record under key k holds a retained message saved at time t that expires after e seconds
RetainedAt(k, t, e) ==
    /\ IsSome(db[k])
    /\ Unwrap(db[k]).create_time = t
    /\ IsSome(Unwrap(db[k]).data.retain_message)
    /\ Unwrap(db[k]).data.retain_message_expired_at = Some(e)

\* every shape a topic payload can take, the ones no writer produces included
TopicValues ==
    [topic_id : TopicIds, topic_name : {"t1", "t2"},
     retain_message : {None} \cup {Some(m) : m \in Messages},
     retain_message_expired_at : {None} \cup {Some(e) : e \in 0..MaxExpiry}]

\* C1: in a pass of retain_message_expire, a visited record under the cluster's
\* topic prefix that holds a retained message with an expiry E, visited when
\* now >= create_time + E (equality included), is saved again in that step with
\* retain_message and retain_message_expired_at both none.
C1_ExpiredRetainIsCleared ==
    [][ (/\ RetainVisitStep
         /\ IsSome(Head(riter).value.data.retain_message)
         /\ IsSome(Head(riter).value.data.retain_message_expired_at)
         /\ now >= Head(riter).value.create_time
                    + Unwrap(Head(riter).value.data.retain_message_expired_at))
        => (/\ IsSome(db'[Head(riter).key])
            /\ Unwrap(db'[Head(riter).key]).data.retain_message = None
            /\ Unwrap(db'[Head(riter).key]).data.retain_message_expired_at = None
            /\ Unwrap(db'[Head(riter).key]).data.topic_name
                   = Head(riter).value.data.topic_name) ]_vars

\* the sweep has just cleared a record it visited exactly at its deadline
C1_Witness ==
    /\ IsSome(rlast)
    /\ Unwrap(rlast).cleared
    /\ Unwrap(rlast).due = "exact"
    /\ IsSome(db[Unwrap(rlast).key])
    /\ Unwrap(db[Unwrap(rlast).key]).data.retain_message = None
    /\ Unwrap(db[Unwrap(rlast).key]).data.retain_message_expired_at = None

\* C2: with a pass every second and the sleep between passes, a retained message
\* saved at time T with expiry E is no longer in the store once the clock reads
\* T + E + 1 or more, and every such message whose deadline the clock reaches
\* does leave the store for good.
C2_RetainGoneInTime ==
    /\ [](\A k \in SweptTopicKeys : \A t \in 0..MaxTime, e \in Expiries :
            RetainedAt(k, t, e) => now < t + e + 1)
    /\ <>[](\A k \in SweptTopicKeys : \A t \in 0..MaxTime, e \in Expiries :
            (t + e <= MaxTime) => ~RetainedAt(k, t, e))

\* the clock reads T + E, and the record saved at T has been cleared by the sweep
C2_Witness ==
    /\ IsSome(rlast)
    /\ Unwrap(rlast).cleared
    /\ Unwrap(rlast).due = "exact"
    /\ IsSome(db[Unwrap(rlast).key])
    /\ Unwrap(db[Unwrap(rlast).key]).create_time = now
    /\ Unwrap(db[Unwrap(rlast).key]).data.retain_message = None
    /\ now >= 1

\* C3: when no writer has touched the record since the iterator was created, a
\* visited record whose retained message is not yet due (now < create_time + E),
\* or has no expiry at all, is not written by the sweep: the store is unchanged
\* by the step. The decision itself never clears a message with no expiry or
\* before its deadline, whatever the payload.
C3_UnexpiredRetainIsKept ==
    /\ \A v \in TopicValues : \A ct \in 0..MaxTime, t \in 0..MaxTime :
          (/\ IsSome(v.retain_message)
           /\ \/ ~IsSome(v.retain_message_expired_at)
              \/ t < ct + Unwrap(v.retain_message_expired_at))
          => ~RetainDelete(v, ct, t)
    /\ [][ (/\ RetainVisitStep
            /\ db[Head(riter).key] = Some(Head(riter).value)
            /\ IsSome(Head(riter).value.data.retain_message)
            /\ \/ ~IsSome(Head(riter).value.data.retain_message_expired_at)
               \/ now < Head(riter).value.create_time
                         + Unwrap(Head(riter).value.data.retain_message_expired_at))
           => db' = db ]_vars

\* the sweep has just visited a retained message before its deadline and left it in place
C3_Witness ==
    /\ IsSome(rlast)
    /\ ~Unwrap(rlast).cleared
    /\ Unwrap(rlast).due = "early"
    /\ IsSome(db[Unwrap(rlast).key])
    /\ IsSome(Unwrap(db[Unwrap(rlast).key]).data.retain_message)
    /\ IsSome(Unwrap(db[Unwrap(rlast).key]).data.retain_message_expired_at)

\* C7: in every state of the store, every topic record has retain_message present
\* exactly when retain_message_expired_at is set; the sweep's clear keeps it so.
C7_RetainIffExpiry ==
    \A k \in TopicKeys :
        IsSome(db[k]) =>
            (IsSome(Unwrap(db[k]).data.retain_message)
                <=> IsSome(Unwrap(db[k]).data.retain_message_expired_at))

\* the sweep has cleared a record, and another record still holds its retained message
C7_Witness ==
    /\ IsSome(rlast)
    /\ Unwrap(rlast).cleared
    /\ IsSome(db[Unwrap(rlast).key])
    /\ Unwrap(db[Unwrap(rlast).key]).data.retain_message = None
    /\ Unwrap(db[Unwrap(rlast).key]).data.retain_message_expired_at = None
    /\ \E k \in SweptTopicKeys :
          /\ k # Unwrap(rlast).key
          /\ IsSome(db[k])
          /\ IsSome(Unwrap(db[k]).data.retain_message)

-----------------------------------------------------------------------------
(* Properties of the last-will sweep *)

SweptLastWillKeys == {k \in LastWillKeys : k.cluster = SweepCluster}

\* the step is one iteration of the last-will sweep's loop on a key under its prefix
LastWillVisitStep ==
    /\ lpc = "scan"
    /\ lpc' = "scan"
    /\ liter # <<>>
    /\ liter' = Tail(liter)
    /\ StartsWith(Head(liter).key, storage_key_mqtt_last_will_prefix(SweepCluster))

\* the record under key k is a last will saved at time t with message_expiry_interval x
LastWillAt(k, t, x) ==
    /\ IsSome(db[k])
    /\ Unwrap(db[k]).create_time = t
    /\ Unwrap(db[k]).data.last_will_properties
           = Some([message_expiry_interval |-> Some(x)])

\* the envelope carries a message_expiry_interval
HasInterval(env) ==
    /\ IsSome(env.data.last_will_properties)
    /\ IsSome(Unwrap(env.data.last_will_properties).message_expiry_interval)

\* the expiry the specification gives a last will: its interval, else 30 days
SpecExpiry(env) ==
    IF HasInterval(env)
    THEN Unwrap(Unwrap(env.data.last_will_properties).message_expiry_interval)
    ELSE 2592000

\* C4: with a pass every second and the sleep between passes, a last will saved
\* at time T with message_expiry_interval X is deleted by the pass that visits it
\* at now >= create_time + X, it is no longer in the store once the clock reads
\* T + X + 1 or more, and every such record whose deadline the clock reaches
\* does leave the store for good.
C4_LastWillGoneInTime ==
    /\ [](\A k \in SweptLastWillKeys : \A t \in 0..MaxTime, x \in Expiries :
            LastWillAt(k, t, x) => now < t + x + 1)
    /\ [][ (/\ LastWillVisitStep
            /\ HasInterval(Head(liter).value)
            /\ now >= Head(liter).value.create_time + SpecExpiry(Head(liter).value))
           => db'[Head(liter).key] = None ]_vars
    /\ <>[](\A k \in SweptLastWillKeys : \A t \in 0..MaxTime, x \in Expiries :
            (t + x <= MaxTime) => ~LastWillAt(k, t, x))

\* the clock reads T + X, and the sweep has just deleted the last will saved at T
C4_Witness ==
    /\ IsSome(llast)
    /\ Unwrap(llast).deleted
    /\ Unwrap(llast).due = "exact"
    /\ db[Unwrap(llast).key] = None
    /\ now >= 1
    /\ now <= MaxTime

\* C5: a visited last will that carries no message_expiry_interval is deleted by
\* the pass that visits it at now >= create_time + 2,592,000.
C5_DefaultExpiryDeletes ==
    [][ (/\ LastWillVisitStep
         /\ ~HasInterval(Head(liter).value)
         /\ now >= Head(liter).value.create_time + 2592000)
        => db'[Head(liter).key] = None ]_vars

\* C6 as stated: a step of the sweep removes no last will that is not yet due,
\* and removes nothing but the record of the client_id it decoded, in its cluster.
C6_NeverDeletesUnexpired ==
    [][ LastWillVisitStep =>
          \A k \in Keys :
              (db'[k] # db[k]) =>
                  /\ k = Key(SweepCluster, "lastwill", Head(liter).value.data.client_id)
                  /\ db'[k] = None
                  /\ now >= Unwrap(db[k]).create_time + SpecExpiry(Unwrap(db[k])) ]_vars

\* C6, amended: a step of the sweep changes nothing but the record of the
\* client_id it decoded, in its own cluster, which it deletes; and when no
\* writer has saved that record since the iterator was created, it is deleted
\* only at now >= create_time + expiry (the interval, else 2,592,000).
C6_NeverDeletesUnexpiredUnwritten ==
    [][ LastWillVisitStep =>
          \A k \in Keys :
              (db'[k] # db[k]) =>
                  /\ k = Key(SweepCluster, "lastwill", Head(liter).value.data.client_id)
                  /\ db'[k] = None
                  /\ (db[k] = Some(Head(liter).value))
                        => now >= Unwrap(db[k]).create_time
                                   + SpecExpiry(Unwrap(db[k])) ]_vars

\* the sweep has just visited a last will no writer touched, a second before
\* its deadline, and left it in place beside another cluster's record
C6_Witness ==
    /\ IsSome(llast)
    /\ ~Unwrap(llast).deleted
    /\ Unwrap(llast).due = "early"
    /\ Unwrap(llast).fresh
    /\ IsSome(db[Unwrap(llast).key])
    /\ HasInterval(Unwrap(db[Unwrap(llast).key]))
    /\ now + 1 = Unwrap(db[Unwrap(llast).key]).create_time
                   + SpecExpiry(Unwrap(db[Unwrap(llast).key]))
    /\ \E k \in LastWillKeys : k.cluster # SweepCluster /\ IsSome(db[k])

-----------------------------------------------------------------------------
(* Properties of MqttCacheManager *)

\* C8: for K in {user, connector}, after add_K(cluster, x) followed by
\* remove_K(cluster, x.name), K's own collection for the cluster no longer
\* contains x.name.
C8_RemoveMutatesOwnCollection ==
    \A c \in Clusters :
        /\ \A n \in UserNames :
               (after_add /\ last_op = Op("remove_user", c, n))
                   => n \notin NamesOf(user_list, c)
        /\ \A n \in ConnectorNames :
               (after_add /\ last_op = Op("remove_connector", c, n))
                   => n \notin NamesOf(connector_list, c)

\* C9: a remove_topic(cluster, name) step leaves the cluster's topic list
\* without the name, in particular right after add_topic(cluster, t) with that
\* name; when the name or the cluster is not present the step changes no
\* collection of the cache.
C9_RemoveTopicRemoves ==
    [][\A c \in Clusters, n \in Names :
           (last_op' = Op("remove_topic", c, n))
               => /\ n \notin NamesOf(topic_list', c)
                  /\ (n \notin NamesOf(topic_list, c))
                         => UNCHANGED <<topic_list, user_list, connector_list,
                                        expire_last_wills>>]_vars

\* remove_topic("c1", "a") ran right after add_topic("c1", "a") completed, in a
\* cluster that keeps another topic
C9_Witness ==
    /\ after_add
    /\ last_op = Op("remove_topic", "c1", "a")
    /\ NamesOf(topic_list, "c1") = {"b"}

\* C10: get_expire_last_wills(cluster) returns exactly the entries added for
\* the cluster by add_expire_last_will, and not since removed by
\* remove_expire_last_will, for which is_send_last_will holds.
C10_GetReturnsDueLiveEntries ==
    IsSome(wills_result) =>
        Unwrap(wills_result).entries =
            {e \in live_wills : /\ e.cluster_name = Unwrap(wills_result).cluster
                                /\ now >= e.delay_sec}

-----------------------------------------------------------------------------
(* Properties of load_mqtt_cache *)

\* the names of the records of a family the store holds for a cluster
StoredNames(c, f) == {k.name : k \in {x \in Keys : /\ x.cluster = c
                                                   /\ x.family = f
                                                   /\ IsSome(db[x])}}

\* C11: once load_mqtt_cache has returned Ok on an empty cache, the cache's
\* topic names and user names of every cluster of type MqttBrokerServer are
\* exactly the names the store lists for it, and no other cluster has entries.
C11_LoadedNamesEqualStore ==
    (loader.pc = "ok") =>
        \A c \in Clusters :
            IF registry[c] = Some("MqttBrokerServer")
            THEN /\ NamesOf(topic_list, c) = StoredNames(c, "topic")
                 /\ NamesOf(user_list, c) = StoredNames(c, "user")
            ELSE /\ topic_list[c] = None
                 /\ user_list[c] = None

\* the call returned Ok: the two topics and the two users of the broker cluster
\* c1 are in the cache, and the records of c2, a cluster of another type, are not
C11_Witness ==
    /\ loader.pc = "ok"
    /\ registry["c1"] = Some("MqttBrokerServer")
    /\ registry["c2"] = Some("JournalServer")
    /\ NamesOf(topic_list, "c1") = {"t1", "t2"}
    /\ NamesOf(user_list, "c1") = {"u1", "u2"}
    /\ StoredNames("c2", "topic") = {"t1"}
    /\ topic_list["c2"] = None

\* C12: every cluster_name that is a key of topic_list, user_list,
\* expire_last_wills or connector_list exists in the cluster registry.
C12_CacheClustersRegistered ==
    \A c \in Clusters :
        (\/ IsSome(topic_list[c])
         \/ IsSome(user_list[c])
         \/ IsSome(expire_last_wills[c])
         \/ IsSome(connector_list[c])) => IsSome(registry[c])

-----------------------------------------------------------------------------
(* Properties of get_share_sub_leader *)

\* C13: the elected broker is a member of the live set, and the election gives
\* the same broker for every order in which the same set of live broker ids is
\* listed: it depends on the set and the group name only.
C13_LeaderDependsOnSetOnly ==
    (IsSome(leader_reply) /\ IsSome(Unwrap(leader_reply).elected)) =>
        LET r == Unwrap(leader_reply)
            live == cluster_cache[r.cluster].live
        IN /\ Unwrap(r.elected) \in IdsOf(live)
           /\ \A q \in OrdersOf(IdsOf(live)) :
                  calc_share_sub_leader(r.group, q) =
                      [ok |-> TRUE, data |-> Unwrap(r.elected)]

\* a leader was elected from the membership listed as 7, 3, 11
C13_Witness ==
    /\ IsSome(leader_reply)
    /\ Unwrap(leader_reply).cluster = "c1"
    /\ cluster_cache["c1"].live = <<7, 3, 11>>
    /\ Unwrap(leader_reply).elected = Some(7)

\* C14: with no live broker in the cluster the election fails with
\* NoBrokerAvailable and get_share_sub_leader answers gRPC CANCELLED carrying
\* that message, never a reply.
C14_NoBrokerIsCancelled ==
    (IsSome(leader_reply) /\ cluster_cache[Unwrap(leader_reply).cluster].live = <<>>) =>
        Unwrap(leader_reply).out =
            [status |-> "CANCELLED", message |-> "NoBrokerAvailable"]

\* the call was answered while no broker of c1 was live, though node records
\* of its brokers were registered
C14_Witness ==
    /\ IsSome(leader_reply)
    /\ Unwrap(leader_reply).cluster = "c1"
    /\ cluster_cache["c1"].live = <<>>
    /\ cluster_cache["c1"].nodes # {}
    /\ Unwrap(leader_reply).out.status = "CANCELLED"

\* C15: a successful reply carries broker_id 0 and empty address and
\* extend_info when the elected broker has no node record, and otherwise the
\* elected id with the inner address and extend info of that very node.
C15_ReplyJoinsElectedNode ==
    (IsSome(leader_reply) /\ Unwrap(leader_reply).out.status = "OK") =>
        LET r == Unwrap(leader_reply)
            e == Unwrap(r.elected)
        IN IF \E n \in cluster_cache[r.cluster].nodes : n.node_id = e
           THEN r.out.reply = [broker_id |-> e,
                               broker_addr |-> <<r.cluster, e>>,
                               extend_info |-> <<"extend", r.cluster, e>>]
           ELSE r.out.reply = [broker_id |-> 0, broker_addr |-> <<>>,
                               extend_info |-> <<>>]

\* broker 7 was elected among three live brokers; it has no node record while
\* the two others have one, and the reply names no broker
C15_Witness ==
    /\ IsSome(leader_reply)
    /\ Unwrap(leader_reply).cluster = "c1"
    /\ Unwrap(leader_reply).elected = Some(7)
    /\ cluster_cache["c1"].nodes = {BrokerNode("c1", 3), BrokerNode("c1", 11)}
    /\ Unwrap(leader_reply).out.status = "OK"
    /\ Unwrap(leader_reply).out.reply.broker_id = 0

-----------------------------------------------------------------------------
(* Properties of the gRPC service *)

\* the StorageDataType that belongs to each mutating RPC
MatchingType(label) ==
    CASE label = "create_user" -> "MQTTCreateUser"
      [] label = "delete_user" -> "MQTTDeleteUser"
      [] label = "create_topic" -> "MQTTCreateTopic"
      [] label = "delete_topic" -> "MQTTDeleteTopic"
      [] label = "create_session" -> "MQTTCreateSession"
      [] label = "delete_session" -> "MQTTDeleteSession"

\* C16: a mutating RPC submits exactly one StorageData of the matching type
\* and writes nothing to the store itself; its reply is success exactly when
\* the proposal was committed and gRPC CANCELLED with the underlying message
\* otherwise; a listing RPC submits no proposal.
C16_OneProposalPerMutatingRpc ==
    [][ /\ (Len(proposals') # Len(proposals)) =>
              /\ Len(proposals') = Len(proposals) + 1
              /\ SubSeq(proposals', 1, Len(proposals)) = proposals
              /\ proposals'[Len(proposals')].data.data_type =
                     MatchingType(proposals'[Len(proposals')].label)
              /\ db' = db
              /\ rpc_reply' = rpc_reply
        /\ (rpc_reply' # rpc_reply) =>
              /\ db' = db
              /\ Len(proposals') = Len(proposals)
              /\ LET r == Unwrap(rpc_reply')
                 IN IF r.index = 0
                    THEN proposals' = proposals
                    ELSE /\ r.out.rpc = proposals[r.index].label
                         /\ (r.out.status = "OK") <=>
                                (proposals[r.index].state = "committed")
                         /\ (r.out.status # "OK") =>
                                r.out = [rpc |-> proposals[r.index].label,
                                         status |-> "CANCELLED",
                                         message |-> "ConsensusError"] ]_vars

\* delete_session was answered CANCELLED after its one MQTTDeleteSession
\* proposal was rejected, and the store holds nothing
C16_Witness ==
    /\ IsSome(rpc_reply)
    /\ Unwrap(rpc_reply).index = 1
    /\ Unwrap(rpc_reply).out.rpc = "delete_session"
    /\ Unwrap(rpc_reply).out.status = "CANCELLED"
    /\ Len(proposals) = 1
    /\ proposals[1].data.data_type = "MQTTDeleteSession"
    /\ \A k \in Keys : db[k] = None

\* the proposals applied to the store that write the user record (c, name)
AppliedUserWrites(c, name) ==
    {i \in 1..Len(proposals) :
        /\ proposals[i].state \in {"committed", "replied_ok"}
        /\ proposals[i].data.data_type \in {"MQTTCreateUser", "MQTTDeleteUser"}
        /\ decode(proposals[i].data.value).cluster_name = c
        /\ decode(proposals[i].data.value).user_name = name}

\* the index-largest element of a non-empty set of proposal indexes
LastOf(w) == CHOOSE i \in w : \A j \in w : j <= i

\* C17: the writes to one user record take effect in proposal order and a
\* list_user sees them: it returns exactly the content of the last applied
\* create_user of that user, and nothing when the last applied proposal for
\* the user is a delete_user or there is none; so a list_user issued after a
\* create_user or delete_user returned success observes it.
C17_ListSeesLastAppliedWrite ==
    [][ (/\ rpc_reply' # rpc_reply
         /\ Unwrap(rpc_reply').index = 0
         /\ Unwrap(rpc_reply').out.status = "OK") =>
           LET r == Unwrap(rpc_reply').out
               w == AppliedUserWrites(r.cluster_name, r.name)
           IN IF w # {} /\ proposals[LastOf(w)].data.data_type = "MQTTCreateUser"
              THEN r.records = <<decode(proposals[LastOf(w)].data.value).content>>
              ELSE r.records = <<>> ]_vars

\* create_user(u1) with password p1 and then with p2 both returned success,
\* u2 exists beside it, and list_user(u1) has just returned the one record
\* with password p2
C17_Witness ==
    /\ Len(proposals) >= 2
    /\ proposals[1].state = "replied_ok"
    /\ proposals[2].state = "replied_ok"
    /\ decode(proposals[1].data.value) =
           CreateUserRequest("c1", "u1", [username |-> "u1", password |-> "p1"])
    /\ decode(proposals[2].data.value) =
           CreateUserRequest("c1", "u1", [username |-> "u1", password |-> "p2"])
    /\ IsSome(rpc_reply)
    /\ Unwrap(rpc_reply).index = 0
    /\ Unwrap(rpc_reply).out.status = "OK"
    /\ Unwrap(rpc_reply).out.name = "u1"
    /\ Unwrap(rpc_reply).out.records = <<[username |-> "u1", password |-> "p2"]>>

\* the step applies a committed proposal to the store
ByCommit ==
    \E i \in Proposed :
        /\ proposals'[i].state = "committed"
        /\ db' = ApplyData(db, proposals[i].data, now)

\* the step is the retained-message sweep saving the record it read under
\* key k, with both retain fields cleared
RetainResave(k) ==
    /\ rpc = "scan"
    /\ riter # <<>>
    /\ Head(riter).key = k
    /\ k.family = "topic"
    /\ IsSome(Head(riter).value.data.retain_message)
    /\ db'[k] = Some(StorageDataWrap(
                     [Head(riter).value.data EXCEPT
                          !.retain_message = None,
                          !.retain_message_expired_at = None], now))

\* the step is the last-will sweep deleting the record it read under key k
LastWillSweepDelete(k) ==
    /\ lpc = "scan"
    /\ liter # <<>>
    /\ Head(liter).key = k
    /\ k.family = "lastwill"
    /\ db'[k] = None

\* C18 as stated: a record is created or its content changed only by a step
\* that applies a committed proposal; the sweeps only destroy records.
C18_WritesOnlyByCommit ==
    [][ \A k \in Keys :
          (db'[k] # db[k] /\ IsSome(db'[k])) => ByCommit ]_vars

\* C18: a record is created or its content changed only by a step that applies
\* a committed proposal, or by the retained-message sweep, which saves the
\* topic record it read at the start of its pass with both retain fields
\* cleared; a record is destroyed outside the proposal path only by the
\* last-will sweep.
C18_WritesByCommitOrRetainSweep ==
    [][ \A k \in Keys :
          (db'[k] # db[k]) =>
              \/ ByCommit
              \/ IF IsSome(db'[k]) THEN RetainResave(k) ELSE LastWillSweepDelete(k)
      ]_vars

\* a committed create_topic stored t1 with a retained message and the sweep
\* has just saved t1 again without it
C18_Witness ==
    /\ Len(proposals) >= 1
    /\ proposals[1].state \in {"committed", "replied_ok"}
    /\ proposals[1].data.data_type = "MQTTCreateTopic"
    /\ IsSome(decode(proposals[1].data.value).content.retain_message)
    /\ IsSome(rlast)
    /\ Unwrap(rlast).cleared
    /\ Unwrap(rlast).key = Key(SweepCluster, "topic", "t1")
    /\ IsSome(db[Key(SweepCluster, "topic", "t1")])
    /\ ~IsSome(Unwrap(db[Key(SweepCluster, "topic", "t1")]).data.retain_message)

\* the sweep's last step cleared the record under k and the store holds a
\* retained message under k again: a save landed after the sweep's save
LostClear(k) ==
    /\ IsSome(rlast)
    /\ Unwrap(rlast).key = k
    /\ Unwrap(rlast).cleared
    /\ IsSome(db[k])
    /\ IsSome(Unwrap(db[k]).data.retain_message)

\* C19: the sweep's read-then-save is not atomic, and a clear that is lost
\* heals: when a save puts a retained message with expiry E back under a topic
\* the sweep has just cleared, at time T, the passes that follow clear it again
\* (at T + E by the record's fresh create_time) unless another write replaces
\* the record first.
C19_LostClearHeals ==
    \A k \in SweptTopicKeys : \A t \in 0..MaxTime, e \in Expiries :
        (t + e <= MaxTime) =>
            ((LostClear(k) /\ RetainedAt(k, t, e)) ~> ~RetainedAt(k, t, e))

\* the sweep cleared t1 in its last step and a save has put a retained message
\* back whose deadline the clock can still reach
C19_Witness ==
    \E k \in SweptTopicKeys : \E t \in 0..MaxTime, e \in Expiries :
        /\ LostClear(k)
        /\ RetainedAt(k, t, e)
        /\ t + e <= MaxTime
        /\ t >= 1

\* C20: a record under the prefix that fails to decode is skipped: the step
\* that meets it changes nothing in the store and advances the iterator by one,
\* and the pass goes on to the records behind it.
C20_MalformedRecordIsSkipped ==
    [][ /\ (/\ rpc = "scan"
            /\ riter # <<>>
            /\ StartsWith(Head(riter).key,
                          storage_key_mqtt_topic_cluster_prefix(SweepCluster))
            /\ ~RetainDecodes(Head(riter).value)
            /\ <<rpc, riter>>' # <<rpc, riter>>) =>
               (rpc' = "scan" /\ riter' = Tail(riter) /\ db' = db)
        /\ (/\ lpc = "scan"
            /\ liter # <<>>
            /\ StartsWith(Head(liter).key,
                          storage_key_mqtt_last_will_prefix(SweepCluster))
            /\ ~LastWillDecodes(Head(liter).value)
            /\ <<lpc, liter>>' # <<lpc, liter>>) =>
               (lpc' = "scan" /\ liter' = Tail(liter) /\ db' = db) ]_vars

\* C21: a step of the retained-message sweep changes only topic records of
\* the swept cluster, and only by saving them; a step of the last-will sweep
\* changes only last-will records of the swept cluster, and only by deleting
\* them. Records of other families and of other clusters are never touched.
C21_SweepWritesOwnPrefixOnly ==
    [][ \A k \in Keys :
          (db'[k] # db[k]) =>
             \/ /\ riter' # riter
                /\ StartsWith(k, storage_key_mqtt_topic_cluster_prefix(SweepCluster))
                /\ IsSome(db'[k])
             \/ /\ liter' # liter
                /\ StartsWith(k, storage_key_mqtt_last_will_prefix(SweepCluster))
                /\ ~IsSome(db'[k]) ]_vars

\* both sweeps have acted on the swept cluster (topic t1 cleared, last will
\* k1 deleted) beside a session and a user of that cluster and a topic and a
\* last will of the other, all of which are as they were saved
C21_Witness ==
    /\ IsSome(db[Key("c1", "topic", "t1")])
    /\ ~IsSome(Unwrap(db[Key("c1", "topic", "t1")]).data.retain_message)
    /\ IsSome(llast)
    /\ Unwrap(llast).deleted
    /\ ~IsSome(db[Key("c1", "lastwill", "k1")])
    /\ \A k \in FrameKeys \ {Key("c1", "topic", "t1"), Key("c1", "lastwill", "k1")} :
          db[k] = Some(StoredRecord(k))

\* C22: no call of a cache method holds more than one shard lock at a time.
C22_AtMostOneShardLock ==
    \A p \in Callers : Cardinality(LocksOf(p)) <= 1

\* C23: when a sweep meets a key that does not begin with its prefix, its
\* step ends the pass: the iterator is dropped with every key from that
\* position on undecoded, and the store is as it was. This holds for the
\* retained-message sweep and for the last-will sweep.
C23_PassStopsAtPrefixBoundary ==
    [][ /\ (/\ rpc = "scan"
            /\ riter # <<>>
            /\ ~StartsWith(Head(riter).key,
                           storage_key_mqtt_topic_cluster_prefix(SweepCluster))
            /\ <<rpc, riter>>' # <<rpc, riter>>) =>
               (rpc' = "sleep" /\ riter' = <<>> /\ db' = db)
        /\ (/\ lpc = "scan"
            /\ liter # <<>>
            /\ ~StartsWith(Head(liter).key,
                           storage_key_mqtt_last_will_prefix(SweepCluster))
            /\ <<lpc, liter>>' # <<lpc, liter>>) =>
               (lpc' = "sleep" /\ liter' = <<>> /\ db' = db) ]_vars

\* both sweeps have ended a pass at the boundary, at second 1 or later: the
\* topic and the last will of the swept cluster are cleared and deleted, and
\* the expired topic and last will of the other cluster, which lie behind
\* the user and the session that ended the passes, are as they were saved
C23_Witness ==
    /\ now >= 1
    /\ rpc = "sleep"
    /\ lpc = "sleep"
    /\ db[Key("c1", "user", "u1")] = Some(StoredRecord(Key("c1", "user", "u1")))
    /\ db[Key("c1", "session", "k1")] = Some(StoredRecord(Key("c1", "session", "k1")))
    /\ IsSome(db[Key("c1", "topic", "t1")])
    /\ Unwrap(db[Key("c1", "topic", "t1")]).create_time >= 1
    /\ ~IsSome(db[Key("c1", "lastwill", "k1")])
    /\ db[Key("c2", "topic", "t1")] = Some(StoredRecord(Key("c2", "topic", "t1")))
    /\ db[Key("c2", "lastwill", "k1")] = Some(StoredRecord(Key("c2", "lastwill", "k1")))

\* C24: when the save of the retained-message sweep or the delete of the
\* last-will sweep fails, the step leaves the store as it was and advances
\* the iterator by one, so the pass goes on with the next key; a sweep is
\* only ever starting, scanning or sleeping: it never ends on an error.
C24_StoreErrorIsSwallowed ==
    /\ [](rpc \in {"start", "scan", "sleep"} /\ lpc \in {"start", "scan", "sleep"})
    /\ [][ /\ (/\ rpc = "scan"
               /\ riter # <<>>
               /\ <<rpc, riter>>' # <<rpc, riter>>
               /\ StartsWith(Head(riter).key,
                             storage_key_mqtt_topic_cluster_prefix(SweepCluster))
               /\ RetainDelete(Head(riter).value.data,
                               Head(riter).value.create_time, now)
               /\ db'[Head(riter).key] = db[Head(riter).key]) =>
                  (rpc' = "scan" /\ riter' = Tail(riter) /\ db' = db)
           /\ (/\ lpc = "scan"
               /\ liter # <<>>
               /\ <<lpc, liter>>' # <<lpc, liter>>
               /\ StartsWith(Head(liter).key,
                             storage_key_mqtt_last_will_prefix(SweepCluster))
               /\ LastWillDelete(Head(liter).value.data,
                                 Head(liter).value.create_time, now)
               /\ IsSome(db[Head(liter).key])
               /\ db'[Head(liter).key] = db[Head(liter).key]) =>
                  (lpc' = "scan" /\ liter' = Tail(liter) /\ db' = db) ]_vars

\* the save of topic t1, due, has just failed: t1 is as it was saved and the
\* pass stands at t2; and the delete of last will k1, due, has failed alike
C24_Witness ==
    /\ rlast = Some([key |-> Key("c1", "topic", "t1"), cleared |-> FALSE,
                     due |-> "exact", erased |-> FALSE])
    /\ db[Key("c1", "topic", "t1")] = Some(StoredRecord(Key("c1", "topic", "t1")))
    /\ rpc = "scan"
    /\ riter # <<>>
    /\ Head(riter).key = Key("c1", "topic", "t2")
    /\ IsSome(llast)
    /\ Unwrap(llast).key = Key("c1", "lastwill", "k1")
    /\ ~Unwrap(llast).deleted
    /\ Unwrap(llast).due = "exact"
    /\ db[Key("c1", "lastwill", "k1")] = Some(StoredRecord(Key("c1", "lastwill", "k1")))
    /\ lpc = "scan"

\* C25: every step a sweep takes while scanning either advances its iterator
\* by exactly one key, staying in the scan, or ends the pass in the sleep; so
\* a pass visits each key of its iterator at most once, ends after finitely
\* many steps in the sleep, and ends at once when the iterator is empty.
C25_PassAdvancesOrSleeps ==
    [][ /\ (rpc = "scan" /\ <<rpc, riter>>' # <<rpc, riter>>) =>
               \/ rpc' = "scan" /\ riter # <<>> /\ riter' = Tail(riter)
               \/ rpc' = "sleep"
        /\ (lpc = "scan" /\ <<lpc, liter>>' # <<lpc, liter>>) =>
               \/ lpc' = "scan" /\ liter # <<>> /\ liter' = Tail(liter)
               \/ lpc' = "sleep" ]_vars

\* C26: the step in which an add_topic, add_user, add_connector or
\* add_expire_last_will call returns from its else-branch (the insert into
\* the outer map) drops no entry another call has added: every name the
\* cluster's collection held before the step is still there after it.
C26_AddNeverDropsEntries ==
    [][ (pending' # pending /\ pending' \subseteq pending) =>
            \A c \in Clusters :
                /\ NamesOf(topic_list, c) \subseteq NamesOf(topic_list', c)
                /\ NamesOf(user_list, c) \subseteq NamesOf(user_list', c)
                /\ NamesOf(connector_list, c) \subseteq NamesOf(connector_list', c)
                /\ NamesOf(expire_last_wills, c) \subseteq NamesOf(expire_last_wills', c)
      ]_vars

\* C27 as stated: whatever the writers do, a step of the retained-message
\* sweep leaves in place every retained message of the store that is not due.
C27_NeverErasesUnexpired ==
    [][ RetainVisitStep =>
          \A k \in SweptTopicKeys :
              RetainLive(db[k], now) => db'[k] = db[k] ]_vars

\* C27: a step of the retained-message sweep erases a retained message that
\* is not due only when a writer has saved the topic since the pass created
\* its iterator and the record the iterator read was due; the step then
\* saves the record as the iterator read it, with both retain fields
\* cleared, over the writer's. A record no writer has touched since then
\* keeps a retained message that is not due.
C27_ErasesUnexpiredOnlyOverStaleRead ==
    [][ RetainVisitStep =>
          \A k \in SweptTopicKeys :
              (RetainLive(db[k], now) /\ db'[k] # db[k]) =>
                  /\ k = Head(riter).key
                  /\ db[k] # Some(Head(riter).value)
                  /\ IsSome(Head(riter).value.data.retain_message)
                  /\ IsSome(Head(riter).value.data.retain_message_expired_at)
                  /\ now >= Head(riter).value.create_time
                      + Unwrap(Head(riter).value.data.retain_message_expired_at)
                  /\ db'[k] = Some(StorageDataWrap(
                                 [Head(riter).value.data EXCEPT
                                      !.retain_message = None,
                                      !.retain_message_expired_at = None], now))
      ]_vars

\* the sweep has just saved a record it read as due over a retained message
\* that a writer had set since and that was not due
C27_Witness ==
    /\ IsSome(rlast)
    /\ Unwrap(rlast).cleared
    /\ Unwrap(rlast).erased
    /\ IsSome(db[Unwrap(rlast).key])
    /\ ~IsSome(Unwrap(db[Unwrap(rlast).key]).data.retain_message)

\* C28: a call of remove_user, remove_connector, add_user or add_connector
\* leaves the topic list of every cluster as it was, also when the cluster
\* holds a topic of the same name.
C28_UserAndConnectorCallsKeepTopics ==
    [][ (/\ IsSome(last_op')
         /\ Unwrap(last_op').op \in {"remove_user", "remove_connector",
                                     "add_user", "add_connector"}) =>
            topic_list' = topic_list ]_vars

\* C29: a step of the retained-message sweep that writes changes one record
\* only, the one under the (cluster, topic_name) key it read; the record it
\* stores has the topic_name and the topic_id it read, no retain_message, no
\* retain_message_expired_at, and the time of the save as create_time. A
\* record read without a retained message (one already cleared) is not saved.
C29_ClearKeepsKeyAndIdentity ==
    [][ RetainVisitStep =>
          LET k == Head(riter).key
              read == Head(riter).value
          IN /\ (db' # db) =>
                   /\ \A x \in Keys \ {k} : db'[x] = db[x]
                   /\ k = Key(SweepCluster, "topic", read.data.topic_name)
                   /\ IsSome(db'[k])
                   /\ Unwrap(db'[k]).create_time = now
                   /\ Unwrap(db'[k]).data.topic_name = read.data.topic_name
                   /\ Unwrap(db'[k]).data.topic_id = read.data.topic_id
                   /\ Unwrap(db'[k]).data.retain_message = None
                   /\ Unwrap(db'[k]).data.retain_message_expired_at = None
                   /\ DOMAIN Unwrap(db'[k]).data = DOMAIN read.data
             /\ ~IsSome(read.data.retain_message) => db' = db ]_vars

\* the sweep has just cleared a topic a second after its deadline: the record
\* under the key carries the key's name, its topic_id and the time of the save
C29_Witness ==
    /\ IsSome(rlast)
    /\ Unwrap(rlast).cleared
    /\ Unwrap(rlast).due = "late"
    /\ IsSome(db[Unwrap(rlast).key])
    /\ Unwrap(db[Unwrap(rlast).key]).create_time = now
    /\ Unwrap(db[Unwrap(rlast).key]).data.topic_name = Unwrap(rlast).key.name
    /\ Unwrap(db[Unwrap(rlast).key]).data.topic_id \in TopicIds
    /\ Unwrap(db[Unwrap(rlast).key]).data.retain_message = None
    /\ Unwrap(db[Unwrap(rlast).key]).data.retain_message_expired_at = None

-----------------------------------------------------------------------------
(* Properties of the broker's TopicStorage *)

=============================================================================
